---------------------------- MODULE Spec2Model ----------------------------
(***************************************************************************)
(* KG-Eval: the structural-integrity dimension                             *)
(* (src/src/kg_eval/dimensions/structural_integrity.py) and the            *)
(* semantic-quality dimension                                              *)
(* (src/src/kg_eval/dimensions/semantic_quality.py) over the data objects  *)
(* of src/src/kg_eval/data_objects.py.                                     *)
(*                                                                         *)
(* Conventions of the model                                                *)
(*  - Optional[T] is a sequence: <<>> is None, <<v>> is the value v.       *)
(*  - A relationship weight and an edge weight are integers counting       *)
(*    tenths (5 is 0.5, 10 is 1.0).                                        *)
(*  - A metric the code rounds with round(x, 4) is an integer counting     *)
(*    ten-thousandths (6667 is 0.6667, 10000 is 1.0).                      *)
(*  - nx.pagerank is a library call: its scores are kept symbolic and      *)
(*    whether a call converges is fixed by the environment, per graph.     *)
(***************************************************************************)
EXTENDS Integers, Sequences, FiniteSets, TLC

VARIABLES
    kg,          \* the KnowledgeGraph handed to the evaluator
    pagerank_ok, \* environment: does nx.pagerank succeed, per weight argument
    graph,       \* the nx.DiGraph built by the last builder call
    attempts,    \* the nx.pagerank calls made by the last evaluate call
    result,      \* outcome of the last evaluate call
    prevResult,  \* outcome of the evaluate call before that
    evaluator,   \* the SemanticQualityEvaluator: referee, sample size, threshold
    pc,          \* position of SemanticQualityEvaluator.evaluate
    metrics,     \* the metrics dict evaluate is filling, and returns
    frame,       \* locals of the metric method that ran last
    referee_calls, \* the referee calls made by that method, in order
    sim_args,    \* arguments of a direct _calculate_string_similarity call
    sim_result,  \* what that call returned
    requested,   \* include_dimensions of the last KGEvaluator.evaluate call
    evaluation,  \* outcome of that call
    summary      \* get_evaluation_summary of that outcome

vars == <<kg, pagerank_ok, graph, attempts, result, prevResult,
          evaluator, pc, metrics, frame, referee_calls, sim_args, sim_result,
          requested, evaluation, summary>>

-----------------------------------------------------------------------------
(* Bounds of the model *)

MaxEntities == 3
MaxRels == 2

(* Input alphabets *)

Names == {"A", "B", "C"}
AttributedPairs == {<<"A", "B">>, <<"B", "A">>}

None == <<>>
Some(v) == <<v>>

SeqsUpTo(S, n) == UNION {[1..m -> S] : m \in 0..n}

-----------------------------------------------------------------------------
(* Data objects *)

Entity(name) ==
    [entity_name |-> name, entity_type |-> None, description |-> None]

Relationship(src, tgt, desc, kws, w) ==
    [source_entity_name |-> src, target_entity_name |-> tgt,
     description |-> desc, keywords |-> kws, weight |-> w]

SourceText(content, names, edges) ==
    [content |-> content, linked_entity_names |-> names, linked_edges |-> edges]

KnowledgeGraph(es, rs, sts) ==
    [entities |-> es, relationships |-> rs, source_texts |-> sts]

(* Entity lists: names in first-occurrence order A, B, C (a list is taken  *)
(* up to renaming of its names); duplicates of a name are allowed.         *)
FirstOccurrencesOrdered(s) ==
    \A i \in DOMAIN s :
        /\ s[i] = "B" => \E j \in 1..(i-1) : s[j] = "A"
        /\ s[i] = "C" => \E j \in 1..(i-1) : s[j] = "B"

EntityLists ==
    {[i \in DOMAIN s |-> Entity(s[i])] :
        s \in {t \in SeqsUpTo(Names, MaxEntities) : FirstOccurrencesOrdered(t)}}

(* Relationships between any two names, optional fields absent. *)
PlainRelationships ==
    {Relationship(s, t, "d1", None, None) : s \in Names, t \in Names}

(* Relationships that differ in description, keywords and weight. *)
AttributeProfiles ==
    { [description |-> "d1", keywords |-> None, weight |-> None],
      [description |-> "d2", keywords |-> Some(<<"k1">>), weight |-> Some(0)],
      [description |-> "d3", keywords |-> Some(<<"k1", "k2">>), weight |-> Some(5)] }

AttributedRelationships ==
    {Relationship(e[1], e[2], p.description, p.keywords, p.weight) :
        e \in AttributedPairs, p \in AttributeProfiles}

RelationshipLists ==
    SeqsUpTo(PlainRelationships, MaxRels) \cup SeqsUpTo(AttributedRelationships, MaxRels)

SourceTextLists ==
    { <<SourceText("text", <<"A">>, << <<"A", "B">> >>)>> }

-----------------------------------------------------------------------------
(* nx.DiGraph: node |-> attribute dict, (u, v) |-> edge attribute dict *)

EmptyDiGraph == [node |-> <<>>, adj |-> <<>>]

NoNodeAttrs == [entity_type |-> <<"absent">>, description |-> <<"absent">>]

number_of_nodes(g) == Cardinality(DOMAIN g.node)
number_of_edges(g) == Cardinality(DOMAIN g.adj)

add_node(g, n, attrs) ==
    [g EXCEPT !.node = (n :> attrs) @@ g.node]

(* Mutant: an existing edge keeps its first attributes *)
add_edge_keep_first(g, u, v, attrs) ==
    LET withU == IF u \in DOMAIN g.node THEN g.node ELSE (u :> NoNodeAttrs) @@ g.node
        withV == IF v \in DOMAIN withU THEN withU ELSE (v :> NoNodeAttrs) @@ withU
    IN  [node |-> withV, adj |-> g.adj @@ (<<u, v>> :> attrs)]

(* Mutant: an edge whose endpoint is not yet a node is rejected *)
add_edge_validated(g, u, v, attrs) ==
    IF u \in DOMAIN g.node /\ v \in DOMAIN g.node
    THEN [g EXCEPT !.adj = (<<u, v>> :> attrs) @@ g.adj]
    ELSE g

add_edge(g, u, v, attrs) ==
    LET withU == IF u \in DOMAIN g.node THEN g.node ELSE (u :> NoNodeAttrs) @@ g.node
        withV == IF v \in DOMAIN withU THEN withU ELSE (v :> NoNodeAttrs) @@ withU
    IN  [node |-> withV, adj |-> (<<u, v>> :> attrs) @@ g.adj]

DefaultWeight == 10

(* `relationship.weight or 1.0`: None and 0.0 are both falsy *)
WeightOrDefault(w) ==
    IF w = None \/ w = Some(0) THEN DefaultWeight ELSE w[1]

EdgeAttrs(r) ==
    [description |-> r.description, keywords |-> r.keywords,
     weight |-> WeightOrDefault(r.weight)]

RECURSIVE AddNodes(_, _, _)
AddNodes(g, es, i) ==
    IF i > Len(es) THEN g
    ELSE AddNodes(add_node(g, es[i].entity_name,
                           [entity_type |-> es[i].entity_type,
                            description |-> es[i].description]),
                  es, i + 1)

RECURSIVE AddEdges(_, _, _)
AddEdges(g, rs, i) ==
    IF i > Len(rs) THEN g
    ELSE AddEdges(add_edge(g, rs[i].source_entity_name, rs[i].target_entity_name,
                           EdgeAttrs(rs[i])),
                  rs, i + 1)

_build_networkx_graph(k) ==
    AddEdges(AddNodes(EmptyDiGraph, k.entities, 1), k.relationships, 1)

-----------------------------------------------------------------------------
(* Metrics *)

(* round(n / d, 4) in ten-thousandths, ties to even *)
Round4(n, d) ==
    LET q == (n * 10000) \div d
        r == (n * 10000) % d
    IN  IF 2 * r > d \/ (2 * r = d /\ q % 2 = 1) THEN q + 1 ELSE q

(* Mutant: the empty result reports no singletons *)
_empty_graph_metrics_no_singletons ==
    [graph_density |-> 0,
     largest_connected_component_ratio |-> 0,
     singleton_ratio |-> 0,
     connected_components_count |-> 0,
     average_degree_centrality |-> 0,
     pagerank_entropy |-> 0,
     centrality_distribution_stats |-> [mean |-> 0, std |-> 0, max |-> 0, min |-> 0]]

_empty_graph_metrics ==
    [graph_density |-> 0,
     largest_connected_component_ratio |-> 0,
     singleton_ratio |-> 10000,
     connected_components_count |-> 0,
     average_degree_centrality |-> 0,
     pagerank_entropy |-> 0,
     centrality_distribution_stats |-> [mean |-> 0, std |-> 0, max |-> 0, min |-> 0]]

(* nx.density of a DiGraph *)
density(g) ==
    LET n == number_of_nodes(g)
        m == number_of_edges(g)
    IN  IF m = 0 \/ n <= 1 THEN 0 ELSE Round4(m, n * (n - 1))

(* Mutant: the domain density taken from the built graph's counts *)
_calculate_graph_density_from_graph(g, k) ==
    [graph_density |->
        IF number_of_nodes(g) = 0 THEN 0
        ELSE Round4(number_of_edges(g), number_of_nodes(g)),
     networkx_density |-> density(g)]

(* Mutant: the evaluator adds each call's density to the one it reported before *)
_calculate_graph_density_accumulating(g, k) ==
    LET before == IF result.kind = "returned" /\ "networkx_density" \in DOMAIN result.value
                  THEN result.value.graph_density ELSE 0
    IN  [graph_density |-> before + Round4(Len(k.relationships), Len(k.entities)),
         networkx_density |-> density(g)]

_calculate_graph_density(g, k) ==
    LET total_entities == Len(k.entities)
        total_relationships == Len(k.relationships)
    IN  [graph_density |->
            IF total_entities = 0 THEN 0
            ELSE Round4(total_relationships, total_entities),
         networkx_density |-> density(g)]

(* Mutant: to_undirected(reciprocal=True), an edge only where both directions exist *)
to_undirected_reciprocal(g) ==
    [nodes |-> DOMAIN g.node,
     edges |-> {{e[1], e[2]} : e \in {d \in DOMAIN g.adj : <<d[2], d[1]>> \in DOMAIN g.adj}}]

(* Mutant: the undirected copy keeps the nodes and drops the edges *)
to_undirected_nodes_only(g) ==
    [nodes |-> DOMAIN g.node, edges |-> {}]

(* graph.to_undirected(): u and v adjacent iff an edge joins them in either direction *)
to_undirected(g) ==
    [nodes |-> DOMAIN g.node,
     edges |-> {{e[1], e[2]} : e \in DOMAIN g.adj}]

Neighbours(ug, S) ==
    {n \in ug.nodes : \E m \in S : {n, m} \in ug.edges}

RECURSIVE ComponentOf(_, _)
ComponentOf(ug, S) ==
    LET T == S \cup Neighbours(ug, S)
    IN  IF T = S THEN S ELSE ComponentOf(ug, T)

connected_components(ug) ==
    {ComponentOf(ug, {n}) : n \in ug.nodes}

(* max(component_sizes) if component_sizes else 0 *)
SetMax(S) ==
    IF S = {} THEN 0 ELSE CHOOSE y \in S : \A z \in S : y >= z

(* Mutant: the comparison `size < 1` in place of `size == 1` *)
CountSingletons_below_one(components) ==
    Cardinality({c \in components : Cardinality(c) < 1})

(* sum(1 for size in component_sizes if size == 1) *)
CountSingletons(components) ==
    Cardinality({c \in components : Cardinality(c) = 1})

_calculate_connectedness(g) ==
    IF number_of_nodes(g) = 0
    THEN [largest_connected_component_ratio |-> 0,
          singleton_ratio |-> 10000,
          connected_components_count |-> 0,
          average_component_size |-> 0]
    ELSE
      LET components == connected_components(to_undirected(g))
          sizes == {Cardinality(c) : c \in components}
          largest_component_size == SetMax(sizes)
          singletons == CountSingletons(components)
      IN  [largest_connected_component_ratio |->
              Round4(largest_component_size, number_of_nodes(g)),
           singleton_ratio |-> Round4(singletons, number_of_nodes(g)),
           connected_components_count |-> Cardinality(components),
           average_component_size |->
              Round4(number_of_nodes(g), Cardinality(components)),
           component_size_distribution |->
              [s \in sizes |-> Cardinality({c \in components : Cardinality(c) = s})]]

(* nx.pagerank(graph, weight=...): the scores stay symbolic *)
pagerank(g, weight) == [op |-> "pagerank", graph |-> g, weight |-> weight]

(* nx.degree_centrality averaged: every node scores 1 on a graph of at most *)
(* one node, else degree / (n - 1), a self-loop counting twice              *)
MeanDegreeCentrality(g) ==
    LET n == number_of_nodes(g)
    IN  IF n <= 1 THEN 10000 ELSE Round4(2 * number_of_edges(g), n * (n - 1))

_calculate_entropy(values) == [op |-> "entropy", of |-> values]

(* Mutant: the unweighted call is made whether or not the weighted one raised *)
PagerankAttempts_both(ok) == <<"weight", "None">>

(* The nx.pagerank calls of one centrality computation under environment ok: *)
(* weighted first, unweighted only after the weighted call raised            *)
PagerankAttempts(ok) ==
    IF ok["weight"] THEN <<"weight">> ELSE <<"weight", "None">>

(* [raised |-> TRUE] when the fallback call raises too, else the metrics *)
_calculate_centrality_distribution(g, ok) ==
    IF number_of_nodes(g) = 0
    THEN [raised |-> FALSE,
          metrics |->
            [average_degree_centrality |-> 0,
             pagerank_entropy |-> 0,
             centrality_distribution_stats |->
                [mean |-> 0, std |-> 0, max |-> 0, min |-> 0],
             top_central_entities |-> <<>>]]
    ELSE IF ~ok["weight"] /\ ~ok["None"]
    THEN [raised |-> TRUE]
    ELSE
      LET pagerank_scores ==
              IF ok["weight"] THEN pagerank(g, "weight") ELSE pagerank(g, "None")
      IN  [raised |-> FALSE,
           metrics |->
             [average_degree_centrality |-> MeanDegreeCentrality(g),
              pagerank_entropy |-> _calculate_entropy(pagerank_scores),
              centrality_distribution_stats |->
                 [mean |-> [op |-> "mean", of |-> pagerank_scores],
                  std |-> [op |-> "std", of |-> pagerank_scores],
                  max |-> [op |-> "max", of |-> pagerank_scores],
                  min |-> [op |-> "min", of |-> pagerank_scores]],
              top_central_entities |-> [op |-> "top5", of |-> pagerank_scores]]]

-----------------------------------------------------------------------------
(* StructuralIntegrityEvaluator.evaluate *)

NotCalled == [kind |-> "not_called"]
Returned(m) == [kind |-> "returned", value |-> m]
Raised == [kind |-> "raised"]

NoGraph == [kind |-> "no_graph"]

(* Mutant: only a graph with neither entities nor relationships is empty *)
IsEmptyInput_both(k) == Len(k.entities) = 0 /\ Len(k.relationships) = 0

(* `not kg.entities or not kg.relationships` *)
IsEmptyInput(k) == Len(k.entities) = 0 \/ Len(k.relationships) = 0

evaluate(k, ok) ==
    IF IsEmptyInput(k)
    THEN Returned(_empty_graph_metrics)
    ELSE
      LET g == _build_networkx_graph(k)
          centrality == _calculate_centrality_distribution(g, ok)
      IN  IF centrality.raised THEN Raised
          ELSE Returned(centrality.metrics
                        @@ _calculate_connectedness(g)
                        @@ _calculate_graph_density(g, k))

-----------------------------------------------------------------------------
(* The semantic-quality dimension                                          *)
(* (src/src/kg_eval/dimensions/semantic_quality.py)                        *)
(*                                                                         *)
(*  - An entity name handed to the alias engine is a sequence of           *)
(*    characters, so that str.lower, str.strip, len and the edit distance  *)
(*    are computed and not assumed.                                        *)
(*  - A similarity and a similarity threshold are exact fractions          *)
(*    [num, den] in lowest terms: 1.0 - distance / max_len is compared     *)
(*    with the threshold as a rational number.                             *)
(*  - The referee and random.sample are the environment: every verdict     *)
(*    and every sample without replacement is a possible outcome.          *)

MaxNameLen == 2
MaxAliasEntities == 6
MaxSemRels == 2
MaxSample == 2

Chars == {"a", "b", "A", " "}
Strings == SeqsUpTo(Chars, MaxNameLen)

RECURSIVE GCD(_, _)
GCD(a, b) == IF b = 0 THEN a ELSE GCD(b, a % b)

(* The float n / d, for 0 <= n and 0 < d *)
Ratio(n, d) == [num |-> n \div GCD(n, d), den |-> d \div GCD(n, d)]

GreaterEq(x, y) == x.num * y.den >= y.num * x.den

SetMin(S) == CHOOSE x \in S : \A y \in S : x <= y

lower_char(c) ==
    CASE c = "A" -> "a"
      [] c = "B" -> "b"
      [] c = "C" -> "c"
      [] c = "D" -> "d"
      [] c = "E" -> "e"
      [] c = "F" -> "f"
      [] c = "G" -> "g"
      [] c = "H" -> "h"
      [] c = "I" -> "i"
      [] c = "J" -> "j"
      [] c = "K" -> "k"
      [] c = "L" -> "l"
      [] c = "M" -> "m"
      [] c = "N" -> "n"
      [] c = "O" -> "o"
      [] c = "P" -> "p"
      [] c = "Q" -> "q"
      [] c = "R" -> "r"
      [] c = "S" -> "s"
      [] c = "T" -> "t"
      [] c = "U" -> "u"
      [] c = "V" -> "v"
      [] c = "W" -> "w"
      [] c = "X" -> "x"
      [] c = "Y" -> "y"
      [] c = "Z" -> "z"
      [] OTHER   -> c

(* str.lower() *)
lower(s) == [i \in DOMAIN s |-> lower_char(s[i])]

(* str.strip() *)
strip(s) ==
    LET kept == {i \in DOMAIN s : s[i] # " "}
    IN  IF kept = {} THEN <<>> ELSE SubSeq(s, SetMin(kept), SetMax(kept))

(* Levenshtein.distance with its default unit costs *)
RECURSIVE levenshtein_distance(_, _)
levenshtein_distance(s, t) ==
    IF Len(s) = 0 THEN Len(t)
    ELSE IF Len(t) = 0 THEN Len(s)
    ELSE IF Head(s) = Head(t) THEN levenshtein_distance(Tail(s), Tail(t))
    ELSE 1 + SetMin({levenshtein_distance(Tail(s), t),
                     levenshtein_distance(s, Tail(t)),
                     levenshtein_distance(Tail(s), Tail(t))})

(* Mutant: the emptiness test is made on the normalized strings' equality *)
(* only, so that two empty strings are an exact match                     *)
_calculate_string_similarity_exact_match_first(str1, str2) ==
    LET str1_norm == strip(lower(str1))
        str2_norm == strip(lower(str2))
    IN  IF str1_norm = str2_norm THEN Ratio(1, 1)
        ELSE IF Len(str1) = 0 \/ Len(str2) = 0 THEN Ratio(0, 1)
        ELSE LET max_len == SetMax({Len(str1_norm), Len(str2_norm)})
                 distance == levenshtein_distance(str1_norm, str2_norm)
             IN  IF distance >= max_len THEN Ratio(0, 1)
                 ELSE Ratio(max_len - distance, max_len)

_calculate_string_similarity(str1, str2) ==
    IF Len(str1) = 0 \/ Len(str2) = 0 THEN Ratio(0, 1)
    ELSE
      LET str1_norm == strip(lower(str1))
          str2_norm == strip(lower(str2))
      IN  IF str1_norm = str2_norm THEN Ratio(1, 1)
          ELSE
            LET max_len == SetMax({Len(str1_norm), Len(str2_norm)})
            IN  IF max_len = 0 THEN Ratio(1, 1)
                ELSE
                  LET distance == levenshtein_distance(str1_norm, str2_norm)
                  IN  \* max(0.0, 1.0 - distance / max_len)
                      IF distance >= max_len THEN Ratio(0, 1)
                      ELSE Ratio(max_len - distance, max_len)

(* Mutant: the threshold itself is not enough *)
MeetsThreshold_strict(similarity, threshold) ==
    similarity.num * threshold.den > threshold.num * similarity.den

(* `similarity >= self.similarity_threshold` *)
MeetsThreshold(similarity, threshold) == GreaterEq(similarity, threshold)

(* The pairs appended by the double loop from position (i, j) on *)
RECURSIVE AppendAliasPairs(_, _, _, _, _)
AppendAliasPairs(alias_pairs, entity_names, threshold, i, j) ==
    IF i > Len(entity_names) THEN alias_pairs
    ELSE IF j > Len(entity_names)
    THEN AppendAliasPairs(alias_pairs, entity_names, threshold, i + 1, i + 2)
    ELSE
      LET similarity == _calculate_string_similarity(entity_names[i], entity_names[j])
      IN  AppendAliasPairs(
              IF MeetsThreshold(similarity, threshold)
              THEN Append(alias_pairs, <<entity_names[i], entity_names[j], similarity>>)
              ELSE alias_pairs,
              entity_names, threshold, i, j + 1)

(* Mutant: a pair is put before the pairs of its own similarity *)
RECURSIVE InsertBySimilarity_before_ties(_, _)
InsertBySimilarity_before_ties(sorted, x) ==
    IF sorted = <<>> THEN <<x>>
    ELSE IF GreaterEq(x[3], Head(sorted)[3]) THEN <<x>> \o sorted
    ELSE <<Head(sorted)>> \o InsertBySimilarity_before_ties(Tail(sorted), x)

(* x goes after every pair whose similarity is at least its own *)
RECURSIVE InsertBySimilarity(_, _)
InsertBySimilarity(sorted, x) ==
    IF sorted = <<>> THEN <<x>>
    ELSE IF GreaterEq(Head(sorted)[3], x[3])
    THEN <<Head(sorted)>> \o InsertBySimilarity(Tail(sorted), x)
    ELSE <<x>> \o sorted

(* list.sort(key=lambda x: x[2], reverse=True): a stable sort *)
RECURSIVE SortBySimilarity(_, _)
SortBySimilarity(sorted, rest) ==
    IF rest = <<>> THEN sorted
    ELSE SortBySimilarity(InsertBySimilarity(sorted, Head(rest)), Tail(rest))

_find_potential_aliases(entity_names, threshold) ==
    SortBySimilarity(<<>>, AppendAliasPairs(<<>>, entity_names, threshold, 1, 2))

MaxDisplayedPairs == 10

(* alias_pairs[:10] *)
Displayed(alias_pairs) ==
    SubSeq(alias_pairs, 1, IF Len(alias_pairs) < MaxDisplayedPairs
                           THEN Len(alias_pairs) ELSE MaxDisplayedPairs)

(* Mutant: the count is taken from the displayed pairs *)
CountAliasPairs_displayed(alias_pairs) == Len(Displayed(alias_pairs))

(* len(alias_pairs) *)
CountAliasPairs(alias_pairs) == Len(alias_pairs)

(* Mutant: the score is not kept at or above zero *)
NormalizationScore_unclamped(count, n) == 10000 - Round4(count, n)

(* round(max(0.0, 1.0 - count / n), 4) *)
NormalizationScore(count, n) ==
    IF count >= n THEN 0 ELSE Round4(n - count, n)

(* Mutant: the entity list is first reduced to the first entity of each name *)
_calculate_entity_normalization_score_distinct_names(k, threshold) ==
    LET first == SelectSeq([i \in DOMAIN k.entities |-> i],
                           LAMBDA i : \A j \in 1..(i - 1) :
                               k.entities[j].entity_name # k.entities[i].entity_name)
        entity_names == [i \in DOMAIN first |-> k.entities[first[i]].entity_name]
        alias_pairs == _find_potential_aliases(entity_names, threshold)
    IN  IF Len(first) <= 1
        THEN [entity_normalization_score |-> 10000,
              potential_alias_pairs |-> <<>>,
              alias_pairs_count |-> 0]
        ELSE [entity_normalization_score |->
                  NormalizationScore(CountAliasPairs(alias_pairs), Len(first)),
              potential_alias_pairs |-> Displayed(alias_pairs),
              alias_pairs_count |-> CountAliasPairs(alias_pairs)]

_calculate_entity_normalization_score(k, threshold) ==
    IF Len(k.entities) <= 1
    THEN [entity_normalization_score |-> 10000,
          potential_alias_pairs |-> <<>>,
          alias_pairs_count |-> 0]
    ELSE
      LET entity_names == [i \in DOMAIN k.entities |-> k.entities[i].entity_name]
          alias_pairs == _find_potential_aliases(entity_names, threshold)
      IN  [entity_normalization_score |->
               NormalizationScore(CountAliasPairs(alias_pairs), Len(k.entities)),
           potential_alias_pairs |-> Displayed(alias_pairs),
           alias_pairs_count |-> CountAliasPairs(alias_pairs)]

(* Mutant: two relationships are equal as soon as their descriptions are *)
RelationshipEq_description_only(r1, r2) == r1.description = r2.description

(* Relationship.__eq__ (and __hash__): source, target and description *)
RelationshipEq(r1, r2) ==
    /\ r1.source_entity_name = r2.source_entity_name
    /\ r1.target_entity_name = r2.target_entity_name
    /\ r1.description = r2.description

(* A dict keyed by relationships is the sequence of its items, in insertion *)
(* order; a source text is named by its position in kg.source_texts.        *)
DictHas(d, r) == \E i \in DOMAIN d : RelationshipEq(d[i].key, r)

DictIndex(d, r) == CHOOSE i \in DOMAIN d : RelationshipEq(d[i].key, r)

DictGet(d, r) == d[DictIndex(d, r)].value

(* d[r] = v: an equal key keeps its place and its key object *)
DictSet(d, r, v) ==
    IF DictHas(d, r)
    THEN [d EXCEPT ![DictIndex(d, r)] = [key |-> d[DictIndex(d, r)].key, value |-> v]]
    ELSE Append(d, [key |-> r, value |-> v])

(* Mutant: the last relationship with the edge's endpoints *)
FirstMatching_last(k, edge) ==
    LET matching == {i \in DOMAIN k.relationships :
                        /\ k.relationships[i].source_entity_name = edge[1]
                        /\ k.relationships[i].target_entity_name = edge[2]}
    IN  IF matching = {} THEN 0 ELSE SetMax(matching)

(* The first relationship of kg.relationships with the edge's endpoints, *)
(* 0 when there is none: the inner loop and its break                    *)
FirstMatching(k, edge) ==
    LET matching == {i \in DOMAIN k.relationships :
                        /\ k.relationships[i].source_entity_name = edge[1]
                        /\ k.relationships[i].target_entity_name = edge[2]}
    IN  IF matching = {} THEN 0 ELSE SetMin(matching)

RECURSIVE MapEdges(_, _, _, _)
MapEdges(rel_to_source, k, s, e) ==
    IF e > Len(k.source_texts[s].linked_edges) THEN rel_to_source
    ELSE
      LET i == FirstMatching(k, k.source_texts[s].linked_edges[e])
      IN  MapEdges(IF i = 0 THEN rel_to_source
                   ELSE DictSet(rel_to_source, k.relationships[i], s),
                   k, s, e + 1)

RECURSIVE MapSourceTexts(_, _, _)
MapSourceTexts(rel_to_source, k, s) ==
    IF s > Len(k.source_texts) THEN rel_to_source
    ELSE MapSourceTexts(MapEdges(rel_to_source, k, s, 1), k, s + 1)

_map_relationships_to_sources(k) == MapSourceTexts(<<>>, k, 1)

(* Mutant: only the first source text that lists the name *)
_find_source_texts_for_entity_first(entity_name, k) ==
    LET listing == {s \in DOMAIN k.source_texts :
                       \E n \in DOMAIN k.source_texts[s].linked_entity_names :
                           k.source_texts[s].linked_entity_names[n] = entity_name}
    IN  IF listing = {} THEN <<>> ELSE <<SetMin(listing)>>

(* The positions of kg.source_texts that list the name *)
_find_source_texts_for_entity(entity_name, k) ==
    SelectSeq([s \in DOMAIN k.source_texts |-> s],
              LAMBDA s : \E n \in DOMAIN k.source_texts[s].linked_entity_names :
                            k.source_texts[s].linked_entity_names[n] = entity_name)

(* [rel for rel in kg.relationships if rel in rel_to_source] *)
EvaluableRelationships(k, rel_to_source) ==
    SelectSeq(k.relationships, LAMBDA rel : DictHas(rel_to_source, rel))

(* The evaluable list of _calculate_factual_precision, empty on its early return *)
FactualPrecisionPopulation(k) ==
    IF Len(k.relationships) = 0 \/ Len(k.source_texts) = 0 THEN <<>>
    ELSE EvaluableRelationships(k, _map_relationships_to_sources(k))

RECURSIVE EntityItems(_, _)
EntityItems(k, i) ==
    IF i > Len(k.entities) THEN <<>>
    ELSE
      LET source_texts == _find_source_texts_for_entity(k.entities[i].entity_name, k)
      IN  [s \in DOMAIN source_texts |->
              [item_type |-> "entity", knowledge_item |-> k.entities[i],
               source_text |-> source_texts[s]]]
          \o EntityItems(k, i + 1)

RelationshipItems(rel_to_source) ==
    [i \in DOMAIN rel_to_source |->
        [item_type |-> "relationship", knowledge_item |-> rel_to_source[i].key,
         source_text |-> rel_to_source[i].value]]

(* all_knowledge_items of _calculate_contextual_relevance, empty on its early return *)
ContextualRelevancePopulation(k) ==
    IF Len(k.source_texts) = 0 THEN <<>>
    ELSE EntityItems(k, 1) \o RelationshipItems(_map_relationships_to_sources(k))

(* min(self.sample_size, len(population)) *)
SampleCount(sample_size, n) == IF sample_size < n THEN sample_size ELSE n

(* Mutant: a position may be drawn again *)
Samples_with_replacement(n, count) == [1..count -> 1..n]

(* random.sample(population, count): count distinct positions, in any order *)
Samples(n, count) ==
    {s \in [1..count -> 1..n] : \A i, j \in 1..count : s[i] = s[j] => i = j}

Verdicts == {"correct", "partially_correct", "incorrect", "unknown"}

(* Mutant: a verdict that is none of the three is not counted *)
Bucket_known_only(verdict) ==
    IF verdict \in {"correct", "partially_correct", "incorrect"} THEN verdict
    ELSE "ignored"

(* The if / elif / else of the factual-precision loop *)
Bucket(verdict) ==
    IF verdict = "correct" THEN "correct"
    ELSE IF verdict = "partially_correct" THEN "partially_correct"
    ELSE "incorrect"

CountVerdicts(verdicts, bucket) ==
    Cardinality({i \in DOMAIN verdicts : Bucket(verdicts[i]) = bucket})

(* The calls the factual-precision loop makes for a sample and the referee's answers *)
FactualPrecisionCalls(rel_to_source, evaluable_relationships, sampled, verdicts) ==
    [i \in DOMAIN sampled |->
        [method |-> "evaluate_factual_precision",
         position |-> sampled[i],
         item |-> evaluable_relationships[sampled[i]],
         source_text |-> DictGet(rel_to_source, evaluable_relationships[sampled[i]]),
         answer |-> verdicts[i]]]

(* Mutant: with nothing to evaluate the metric is null, as without a referee *)
_calculate_factual_precision_null_when_empty(k, sampled, verdicts) ==
    IF Len(sampled) = 0
    THEN [factual_precision |-> None,
          factual_precision_details |->
              [total_evaluated |-> 0, correct |-> 0,
               partially_correct |-> 0, incorrect |-> 0]]
    ELSE [factual_precision |->
              Some(Round4(2 * CountVerdicts(verdicts, "correct")
                            + CountVerdicts(verdicts, "partially_correct"),
                          2 * Len(sampled))),
          factual_precision_details |->
              [total_evaluated |-> Len(sampled),
               correct |-> CountVerdicts(verdicts, "correct"),
               partially_correct |-> CountVerdicts(verdicts, "partially_correct"),
               incorrect |-> CountVerdicts(verdicts, "incorrect")]]

_calculate_factual_precision(k, sampled, verdicts) ==
    IF Len(k.relationships) = 0 \/ Len(k.source_texts) = 0
    THEN [factual_precision |-> Some(0),
          factual_precision_details |->
              [total_evaluated |-> 0, correct |-> 0,
               partially_correct |-> 0, incorrect |-> 0]]
    ELSE IF Len(sampled) = 0 /\ FactualPrecisionPopulation(k) = <<>>
    THEN [factual_precision |-> Some(0),
          factual_precision_details |->
              [total_evaluated |-> 0, correct |-> 0,
               partially_correct |-> 0, incorrect |-> 0,
               error |-> "No relationships could be mapped to source texts"]]
    ELSE
      LET sample_size == Len(sampled)
          correct == CountVerdicts(verdicts, "correct")
          partially_correct == CountVerdicts(verdicts, "partially_correct")
          incorrect == CountVerdicts(verdicts, "incorrect")
      IN  [factual_precision |->
               Some(IF sample_size > 0
                    THEN Round4(2 * correct + partially_correct, 2 * sample_size)
                    ELSE 0),
           factual_precision_details |->
               [total_evaluated |-> sample_size, correct |-> correct,
                partially_correct |-> partially_correct, incorrect |-> incorrect]]

ContextualRelevanceCalls(all_knowledge_items, sampled, answers) ==
    [i \in DOMAIN sampled |->
        [method |-> "evaluate_contextual_relevance",
         position |-> sampled[i],
         item |-> all_knowledge_items[sampled[i]].knowledge_item,
         item_type |-> all_knowledge_items[sampled[i]].item_type,
         source_text |-> all_knowledge_items[sampled[i]].source_text,
         answer |-> answers[i]]]

_calculate_contextual_relevance(k, sampled, answers) ==
    IF Len(k.source_texts) = 0
    THEN [contextual_relevance |-> Some(0),
          contextual_relevance_details |->
              [total_evaluated |-> 0, core_facts |-> 0, marginal_facts |-> 0]]
    ELSE IF Len(sampled) = 0 /\ ContextualRelevancePopulation(k) = <<>>
    THEN [contextual_relevance |-> Some(0),
          contextual_relevance_details |->
              [total_evaluated |-> 0, core_facts |-> 0, marginal_facts |-> 0,
               error |-> "No knowledge items could be mapped to source texts"]]
    ELSE
      LET sample_size == Len(sampled)
          core_facts == Cardinality({i \in DOMAIN answers : answers[i]})
          marginal_facts == Cardinality({i \in DOMAIN answers : ~answers[i]})
      IN  [contextual_relevance |->
               Some(IF sample_size > 0 THEN Round4(core_facts, sample_size) ELSE 0),
           contextual_relevance_details |->
               [total_evaluated |-> sample_size, core_facts |-> core_facts,
                marginal_facts |-> marginal_facts]]

(* Mutant: the referee is used whether or not one was supplied *)
HasReferee_always(e) == TRUE

(* `if self.llm_referee:` *)
HasReferee(e) == e.llm_referee # None

NotProvided == "LLM referee not provided"

DefaultSampleSize == 50
DefaultThreshold == Ratio(7, 10)

(* SemanticQualityEvaluator(llm_referee, sample_size, similarity_threshold) *)
SemanticQualityEvaluator(referee, sample_size, threshold) ==
    [llm_referee |-> referee, sample_size |-> sample_size,
     similarity_threshold |-> threshold]

-----------------------------------------------------------------------------
(* The bundled referees (src/src/kg_eval/llm_referee.py)                   *)
(*                                                                         *)
(* A call of the provider's API ends in an error, in a timeout, or in a    *)
(* response; the text of a response is a sequence of characters, or is     *)
(* missing. OpenAIReferee and AnthropicReferee read the text from          *)
(* different fields and parse it alike.                                    *)

BundledReferees == {"OpenAIReferee", "AnthropicReferee"}

ApiError == [kind |-> "error"]
ApiTimeout == [kind |-> "timeout"]
ApiResponse(content) == [kind |-> "response", content |-> content]

(* Replies to the factual-precision prompt *)
FactualPrecisionReplies ==
    {<<"C", "O", "R", "R", "E", "C", "T">>,
     <<"P", "A", "R", "T", "I", "A", "L", "L", "Y", "_", "C", "O", "R", "R", "E", "C", "T">>,
     <<"I", "N", "C", "O", "R", "R", "E", "C", "T">>,
     <<"I", "n", "c", "o", "r", "r", "e", "c", "t">>,
     <<" ", "c", "o", "r", "r", "e", "c", "t">>,
     <<"p", "a", "r", "t", "i", "a", "l">>,
     <<"N", "/", "A">>}

(* Replies to the contextual-relevance prompt *)
ContextualRelevanceReplies ==
    {<<"C", "O", "R", "E">>,
     <<"M", "A", "R", "G", "I", "N", "A", "L">>,
     <<"I", "m", "p", "o", "r", "t", "a", "n", "t">>,
     <<" ", "c", "o", "r", "e", " ">>,
     <<"N", "/", "A">>}

FactualPrecisionResponses ==
    {ApiError, ApiTimeout, ApiResponse(None)}
        \cup {ApiResponse(Some(t)) : t \in FactualPrecisionReplies}

ContextualRelevanceResponses ==
    {ApiError, ApiTimeout, ApiResponse(None)}
        \cup {ApiResponse(Some(t)) : t \in ContextualRelevanceReplies}

(* Python's `word in text` on strings *)
Contains(text, word) ==
    \E i \in 0..(Len(text) - Len(word)) : SubSeq(text, i + 1, i + Len(word)) = word

(* The body of the try block: the API call, reading the text (which raises *)
(* when there is none), .strip().lower()                                   *)
ReadResult(response) ==
    IF response.kind # "response" \/ response.content = None
    THEN [raised |-> TRUE]
    ELSE [raised |-> FALSE, result |-> lower(strip(response.content[1]))]

ParseFactualPrecision(text) ==
    IF Contains(text, <<"c", "o", "r", "r", "e", "c", "t">>)
         /\ ~Contains(text, <<"p", "a", "r", "t", "i", "a", "l", "l", "y">>)
    THEN "correct"
    ELSE IF Contains(text, <<"p", "a", "r", "t", "i", "a", "l", "l", "y">>)
              \/ Contains(text, <<"p", "a", "r", "t", "i", "a", "l">>)
    THEN "partially_correct"
    ELSE "incorrect"

ParseContextualRelevance(text) ==
    Contains(text, <<"c", "o", "r", "e">>)
        \/ Contains(text, <<"i", "m", "p", "o", "r", "t", "a", "n", "t">>)

(* Mutant: without the except clause the exception is the call's outcome *)
evaluate_factual_precision_uncaught(response) ==
    IF ReadResult(response).raised THEN "raised"
    ELSE ParseFactualPrecision(ReadResult(response).result)

(* OpenAIReferee / AnthropicReferee.evaluate_factual_precision, given the *)
(* outcome of its API call                                                *)
evaluate_factual_precision(response) ==
    IF ReadResult(response).raised THEN "incorrect"
    ELSE ParseFactualPrecision(ReadResult(response).result)

(* OpenAIReferee / AnthropicReferee.evaluate_contextual_relevance *)
evaluate_contextual_relevance(response) ==
    IF ReadResult(response).raised THEN FALSE
    ELSE ParseContextualRelevance(ReadResult(response).result)

(* What one call of referee.evaluate_factual_precision can be: any verdict *)
(* from a referee of the caller's own, the parsed API outcome from a       *)
(* bundled one                                                             *)
FactualPrecisionOutcomes(referee) ==
    IF referee \in {Some(b) : b \in BundledReferees}
    THEN {[response |-> r, answer |-> evaluate_factual_precision(r)] :
             r \in FactualPrecisionResponses}
    ELSE {[response |-> None, answer |-> v] : v \in Verdicts}

ContextualRelevanceOutcomes(referee) ==
    IF referee \in {Some(b) : b \in BundledReferees}
    THEN {[response |-> r, answer |-> evaluate_contextual_relevance(r)] :
             r \in ContextualRelevanceResponses}
    ELSE {[response |-> None, answer |-> v] : v \in BOOLEAN}

(* The call log with the API outcome behind each answer *)
WithResponses(calls, outcomes) ==
    [i \in DOMAIN calls |-> calls[i] @@ [response |-> outcomes[i].response]]

-----------------------------------------------------------------------------
(* The scale-and-richness and efficiency dimensions and the KGEvaluator    *)
(* (src/src/kg_eval/dimensions/scale_richness.py, efficiency.py,           *)
(*  src/src/kg_eval/evaluator.py)                                          *)
(*                                                                         *)
(*  - Where these evaluators read the characters of a string (a keyword,   *)
(*    a description, the content of a source text), the string is a        *)
(*    sequence of characters.                                              *)
(*  - relationship_diversity_score is in ten-thousandths, each term        *)
(*    prob * prob ** 0.5 taken through an integer square root: the figure  *)
(*    is within 0.0002 per relationship type of the float's.               *)
(*  - A figure rounded to six places is [whole, millionths].               *)

RECURSIVE SeqSum(_)
SeqSum(s) == IF s = <<>> THEN 0 ELSE Head(s) + SeqSum(Tail(s))

(* round(n / d) to the nearest integer, ties to even *)
RoundDiv(n, d) ==
    LET q == n \div d
        r == n % d
    IN  IF 2 * r > d \/ (2 * r = d /\ q % 2 = 1) THEN q + 1 ELSE q

(* round(n / d, 6) *)
Round6(n, d) ==
    LET q == n \div d
        m == RoundDiv((n % d) * 1000000, d)
    IN  IF m = 1000000 THEN [whole |-> q + 1, millionths |-> 0]
        ELSE [whole |-> q, millionths |-> m]

Zero6 == [whole |-> 0, millionths |-> 0]

_calculate_counts(k) ==
    [entity_count |-> Len(k.entities),
     relationship_count |-> Len(k.relationships),
     source_text_count |-> Len(k.source_texts)]

(* filled_count of an entity: entity_type and description *)
EntityFilledCount(entity) ==
    (IF entity.entity_type # None THEN 1 ELSE 0)
        + (IF entity.description # None THEN 1 ELSE 0)

(* filled_count of a relationship: non-empty keywords, and weight *)
RelationshipFilledCount(relationship) ==
    (IF relationship.keywords # None /\ Len(relationship.keywords[1]) > 0
     THEN 1 ELSE 0)
        + (IF relationship.weight # None THEN 1 ELSE 0)

TotalOptional == 2

(* Mutant: an average over an empty list is taken as complete *)
FillRateAverage_empty_is_full(filled_counts) ==
    IF Len(filled_counts) > 0
    THEN Round4(SeqSum(filled_counts), TotalOptional * Len(filled_counts))
    ELSE 10000

(* sum(rates) / len(rates) if rates else 0.0, rounded *)
FillRateAverage(filled_counts) ==
    IF Len(filled_counts) > 0
    THEN Round4(SeqSum(filled_counts), TotalOptional * Len(filled_counts))
    ELSE 0

_calculate_property_fill_rate(k) ==
    IF Len(k.entities) = 0 /\ Len(k.relationships) = 0
    THEN [entity_property_fill_rate |-> 0,
          relationship_property_fill_rate |-> 0,
          overall_property_fill_rate |-> 0]
    ELSE
      LET entity_filled ==
              [i \in DOMAIN k.entities |-> EntityFilledCount(k.entities[i])]
          relationship_filled ==
              [i \in DOMAIN k.relationships |->
                  RelationshipFilledCount(k.relationships[i])]
          total_objects == Len(k.entities) + Len(k.relationships)
      IN  [entity_property_fill_rate |-> FillRateAverage(entity_filled),
           relationship_property_fill_rate |-> FillRateAverage(relationship_filled),
           overall_property_fill_rate |->
              IF total_objects > 0
              THEN Round4(SeqSum(entity_filled) + SeqSum(relationship_filled),
                          TotalOptional * total_objects)
              ELSE 0]

(* str.split(): the words between runs of blanks *)
RECURSIVE split(_)
split(s) ==
    IF s = <<>> THEN <<>>
    ELSE IF Head(s) = " " THEN split(Tail(s))
    ELSE
      LET blanks == {i \in DOMAIN s : s[i] = " "}
          n == IF blanks = {} THEN Len(s) ELSE SetMin(blanks) - 1
      IN  <<SubSeq(s, 1, n)>> \o split(SubSeq(s, n + 1, Len(s)))

(* " ".join(words) *)
RECURSIVE join(_)
join(words) ==
    IF words = <<>> THEN <<>>
    ELSE IF Len(words) = 1 THEN words[1]
    ELSE words[1] \o <<" ">> \o join(Tail(words))

DescriptionWords == 2

(* The types one relationship adds to type_counter: its keywords, lower-cased *)
(* and stripped, or without keywords the first two words of its description   *)
TypesOf(relationship) ==
    IF relationship.keywords # None /\ Len(relationship.keywords[1]) > 0
    THEN [i \in DOMAIN relationship.keywords[1] |->
             strip(lower(relationship.keywords[1][i]))]
    ELSE LET desc_words == split(lower(relationship.description))
         IN  <<join(SubSeq(desc_words, 1,
                           IF Len(desc_words) < DescriptionWords
                           THEN Len(desc_words) ELSE DescriptionWords))>>

RECURSIVE CountedTypes(_, _)
CountedTypes(rs, i) ==
    IF i > Len(rs) THEN <<>> ELSE TypesOf(rs[i]) \o CountedTypes(rs, i + 1)

(* Counter: type |-> number of times it was counted *)
TypeCounter(counted) ==
    [t \in {counted[i] : i \in DOMAIN counted} |->
        Cardinality({i \in DOMAIN counted : counted[i] = t})]

MostCommonLimit == 10

(* dict(type_counter.most_common(10)) *)
MostCommon(type_counter) ==
    IF Cardinality(DOMAIN type_counter) <= MostCommonLimit THEN type_counter
    ELSE
      LET top == CHOOSE S \in SUBSET DOMAIN type_counter :
                    /\ Cardinality(S) = MostCommonLimit
                    /\ \A t \in S : \A u \in (DOMAIN type_counter) \ S :
                          type_counter[t] >= type_counter[u]
      IN  [t \in top |-> type_counter[t]]

RECURSIVE Newton(_, _)
Newton(n, x) ==
    LET y == (x + n \div x) \div 2
    IN  IF y >= x THEN x ELSE Newton(n, y)

(* The integer part of the square root *)
isqrt(n) == IF n = 0 THEN 0 ELSE Newton(n, n)

(* prob * (prob ** 0.5) for prob = count / total, in ten-thousandths *)
DiversityTerm(count, total) ==
    (count * isqrt((count * 100000000) \div total)) \div total

RECURSIVE SumTerms(_, _, _)
SumTerms(type_counter, types, total) ==
    IF types = {} THEN 0
    ELSE LET t == CHOOSE x \in types : TRUE
         IN  DiversityTerm(type_counter[t], total)
                + SumTerms(type_counter, types \ {t}, total)

(* Mutant: the Shannon entropy's sign, the terms added instead of subtracted *)
DiversityScore_added(type_counter, total_relationships) ==
    IF total_relationships > 0
    THEN SumTerms(type_counter, DOMAIN type_counter, total_relationships)
    ELSE 0

(* diversity_score -= prob * (prob ** 0.5), over the counter's values *)
DiversityScore(type_counter, total_relationships) ==
    IF total_relationships > 0
    THEN 0 - SumTerms(type_counter, DOMAIN type_counter, total_relationships)
    ELSE 0

_calculate_relational_diversity(k) ==
    IF Len(k.relationships) = 0
    THEN [unique_relationship_types |-> 0,
          relationship_type_distribution |-> <<>>,
          relationship_diversity_score |-> 0]
    ELSE
      LET counted == CountedTypes(k.relationships, 1)
          type_counter == TypeCounter(counted)
          total_relationships == Len(counted)
      IN  [unique_relationship_types |-> Cardinality(DOMAIN type_counter),
           relationship_type_distribution |-> MostCommon(type_counter),
           relationship_diversity_score |->
              DiversityScore(type_counter, total_relationships)]

(* ScaleRichnessEvaluator.evaluate *)
ScaleRichnessEvaluate(k) ==
    _calculate_counts(k)
        @@ _calculate_property_fill_rate(k)
        @@ _calculate_relational_diversity(k)

_calculate_knowledge_density(k) ==
    IF Len(k.source_texts) = 0
    THEN [knowledge_density_per_chunk |-> 0,
          total_knowledge_items |-> 0,
          total_source_chunks |-> 0]
    ELSE [knowledge_density_per_chunk |->
              Round4(Len(k.entities) + Len(k.relationships), Len(k.source_texts)),
          total_knowledge_items |-> Len(k.entities) + Len(k.relationships),
          total_source_chunks |-> Len(k.source_texts)]

(* round((count / total_text_length if total_text_length > 0 else 0.0) * 1000, 6) *)
PerCharacter(count, total_text_length) ==
    IF total_text_length > 0 THEN Round6(1000 * count, total_text_length)
    ELSE Zero6

(* `source.linked_entity_names or source.linked_edges` *)
IsProductive(source) ==
    Len(source.linked_entity_names) > 0 \/ Len(source.linked_edges) > 0

_calculate_additional_efficiency_metrics(k) ==
    IF Len(k.source_texts) = 0
    THEN [entities_per_character |-> Zero6,
          relationships_per_character |-> Zero6,
          average_entities_per_source |-> 0,
          average_relationships_per_source |-> 0,
          average_source_text_length |-> 0,
          total_text_length |-> 0,
          productive_source_ratio |-> 0,
          productive_sources |-> 0,
          unproductive_sources |-> 0]
    ELSE
      LET total_text_length ==
              SeqSum([s \in DOMAIN k.source_texts |-> Len(k.source_texts[s].content)])
          productive_sources ==
              Cardinality({s \in DOMAIN k.source_texts : IsProductive(k.source_texts[s])})
      IN  [entities_per_character |->
              PerCharacter(Len(k.entities), total_text_length),
           relationships_per_character |->
              PerCharacter(Len(k.relationships), total_text_length),
           average_entities_per_source |->
              Round4(Len(k.entities), Len(k.source_texts)),
           average_relationships_per_source |->
              Round4(Len(k.relationships), Len(k.source_texts)),
           average_source_text_length |->
              RoundDiv(100 * total_text_length, Len(k.source_texts)),
           total_text_length |-> total_text_length,
           productive_source_ratio |->
              Round4(productive_sources, Len(k.source_texts)),
           productive_sources |-> productive_sources,
           unproductive_sources |-> Len(k.source_texts) - productive_sources]

(* EfficiencyEvaluator.evaluate *)
EfficiencyEvaluate(k) ==
    _calculate_knowledge_density(k) @@ _calculate_additional_efficiency_metrics(k)

(* What the referee and random.sample do during one call of             *)
(* SemanticQualityEvaluator.evaluate: the two samples and the answers   *)
SemanticEnvironments(k, e) ==
    IF ~HasReferee(e)
    THEN {[fp_sampled |-> <<>>, fp_outcomes |-> <<>>,
           cr_sampled |-> <<>>, cr_outcomes |-> <<>>]}
    ELSE
      LET fp_population == Len(FactualPrecisionPopulation(k))
          cr_population == Len(ContextualRelevancePopulation(k))
          fp_count == SampleCount(e.sample_size, fp_population)
          cr_count == SampleCount(e.sample_size, cr_population)
      IN  {[fp_sampled |-> fs, fp_outcomes |-> fo,
            cr_sampled |-> cs, cr_outcomes |-> co] :
              fs \in Samples(fp_population, fp_count),
              fo \in [1..fp_count -> FactualPrecisionOutcomes(e.llm_referee)],
              cs \in Samples(cr_population, cr_count),
              co \in [1..cr_count -> ContextualRelevanceOutcomes(e.llm_referee)]}

(* SemanticQualityEvaluator.evaluate, as one call *)
SemanticQualityEvaluate(k, e, env) ==
    _calculate_entity_normalization_score(k, e.similarity_threshold)
        @@ (IF HasReferee(e)
            THEN _calculate_factual_precision(
                     k, env.fp_sampled,
                     [i \in DOMAIN env.fp_outcomes |-> env.fp_outcomes[i].answer])
            ELSE [factual_precision |-> None,
                  factual_precision_details |-> NotProvided])
        @@ (IF HasReferee(e)
            THEN _calculate_contextual_relevance(
                     k, env.cr_sampled,
                     [i \in DOMAIN env.cr_outcomes |-> env.cr_outcomes[i].answer])
            ELSE [contextual_relevance |-> None,
                  contextual_relevance_details |-> NotProvided])

AllDimensions ==
    <<"scale_richness", "structural_integrity", "semantic_quality", "efficiency">>

(* `name in include_dimensions` *)
InList(name, list) == \E i \in DOMAIN list : list[i] = name

(* str(kg) *)
KGSummary(k) ==
    [entities |-> Len(k.entities), relationships |-> Len(k.relationships),
     source_texts |-> Len(k.source_texts)]

(* Mutant: a dimension's result is added whether or not it was asked for *)
DimensionResult_always(name, include_dimensions, value) == (name :> value)

(* `if name in include_dimensions: results[name] = ...` *)
DimensionResult(name, include_dimensions, value) ==
    IF InList(name, include_dimensions) THEN (name :> value) ELSE <<>>

(* KGEvaluator.evaluate(kg, include_dimensions) of the evaluator e, under the *)
(* PageRank environment ok and the semantic environment env                   *)
KGEvaluatorEvaluate(e, k, include_argument, ok, env) ==
    LET include_dimensions ==
            IF include_argument = None THEN AllDimensions ELSE include_argument[1]
        structural == evaluate(k, ok)
    IN  IF InList("structural_integrity", include_dimensions) /\ structural = Raised
        THEN Raised
        ELSE Returned(
               ("evaluation_metadata" :>
                   [kg_summary |-> KGSummary(k),
                    llm_referee_available |-> e.llm_referee # None,
                    sample_size |-> e.sample_size,
                    similarity_threshold |-> e.similarity_threshold,
                    included_dimensions |-> include_dimensions])
               @@ DimensionResult("scale_richness", include_dimensions,
                                  ScaleRichnessEvaluate(k))
               @@ DimensionResult("structural_integrity", include_dimensions,
                                  IF structural = Raised THEN Raised
                                  ELSE structural.value)
               @@ DimensionResult("semantic_quality", include_dimensions,
                                  SemanticQualityEvaluate(k, e, env))
               @@ DimensionResult("efficiency", include_dimensions,
                                  EfficiencyEvaluate(k)))


(* recommendations.append(text) when the condition holds *)
AppendIf(condition, text) == IF condition THEN <<text>> ELSE <<>>

(* `sr.get("relationship_diversity_score", 0) < 1.0` *)
NeedsMoreDiversity(sr) == sr.relationship_diversity_score < 10000

_generate_recommendations(results) ==
    LET recommendations ==
            (IF "scale_richness" \in DOMAIN results
             THEN AppendIf(results.scale_richness.overall_property_fill_rate < 5000,
                           "Consider improving metadata extraction to increase property fill rate")
                  \o AppendIf(NeedsMoreDiversity(results.scale_richness),
                              "Work on identifying more diverse relationship types")
             ELSE <<>>)
         \o (IF "structural_integrity" \in DOMAIN results
             THEN AppendIf(results.structural_integrity.singleton_ratio > 3000,
                           "High singleton ratio detected - consider improving entity linking")
                  \o AppendIf(results.structural_integrity
                                  .largest_connected_component_ratio < 7000,
                              "Graph appears fragmented - work on connecting related entities")
             ELSE <<>>)
         \o (IF "semantic_quality" \in DOMAIN results
             THEN AppendIf(results.semantic_quality.entity_normalization_score < 8000,
                           "Entity normalization needs improvement - many potential aliases detected")
                  \o AppendIf(/\ results.semantic_quality.factual_precision # None
                              /\ results.semantic_quality.factual_precision[1] < 8000,
                              "Factual precision is low - review knowledge extraction accuracy")
             ELSE <<>>)
         \o (IF "efficiency" \in DOMAIN results
             THEN AppendIf(results.efficiency.productive_source_ratio < 7000,
                           "Many source texts are unproductive - improve text filtering or processing")
             ELSE <<>>)
    IN  IF recommendations = <<>>
        THEN <<"Overall performance looks good across evaluated dimensions">>
        ELSE recommendations

get_evaluation_summary(results) ==
    [overall_scores |-> <<>>,
     key_metrics |->
        (IF "scale_richness" \in DOMAIN results
         THEN [total_entities |-> results.scale_richness.entity_count,
               total_relationships |-> results.scale_richness.relationship_count,
               property_fill_rate |->
                   results.scale_richness.overall_property_fill_rate]
         ELSE <<>>)
        @@ (IF "structural_integrity" \in DOMAIN results
            THEN [graph_density |-> results.structural_integrity.graph_density,
                  lcc_ratio |-> results.structural_integrity
                                    .largest_connected_component_ratio,
                  singleton_ratio |-> results.structural_integrity.singleton_ratio]
            ELSE <<>>)
        @@ (IF "semantic_quality" \in DOMAIN results
            THEN [entity_normalization_score |->
                      results.semantic_quality.entity_normalization_score,
                  factual_precision |-> results.semantic_quality.factual_precision]
            ELSE <<>>)
        @@ (IF "efficiency" \in DOMAIN results
            THEN [knowledge_density |-> results.efficiency.knowledge_density_per_chunk]
            ELSE <<>>),
     recommendations |-> _generate_recommendations(results)]

-----------------------------------------------------------------------------
(* State machine *)

Init ==
    /\ kg \in {KnowledgeGraph(es, rs, sts) :
                  es \in EntityLists, rs \in RelationshipLists, sts \in SourceTextLists}
    /\ pagerank_ok \in [{"weight", "None"} -> BOOLEAN]
    /\ graph = NoGraph
    /\ attempts = <<>>
    /\ result = NotCalled
    /\ prevResult = NotCalled
    /\ evaluator = SemanticQualityEvaluator(None, DefaultSampleSize, DefaultThreshold)
    /\ pc = "idle"
    /\ metrics = NotCalled
    /\ frame = [method |-> "none"]
    /\ referee_calls = <<>>
    /\ sim_args = <<<<>>, <<>>>>
    /\ sim_result = None
    /\ requested = None
    /\ evaluation = NotCalled
    /\ summary = NotCalled

(* A direct call of the graph builder *)
BuildGraph ==
    /\ graph' = _build_networkx_graph(kg)
    /\ UNCHANGED <<requested, evaluation, summary, kg, pagerank_ok, attempts, result, prevResult,
                   evaluator, pc, metrics, frame, referee_calls, sim_args, sim_result>>

(* One call of StructuralIntegrityEvaluator.evaluate(kg) *)
Evaluate ==
    /\ prevResult' = result
    /\ result' = evaluate(kg, pagerank_ok)
    /\ graph' = IF IsEmptyInput(kg) THEN graph ELSE _build_networkx_graph(kg)
    /\ attempts' = IF IsEmptyInput(kg) THEN <<>> ELSE PagerankAttempts(pagerank_ok)
    /\ UNCHANGED <<requested, evaluation, summary, kg, pagerank_ok,
                   evaluator, pc, metrics, frame, referee_calls, sim_args, sim_result>>

Next == BuildGraph \/ Evaluate

Spec == Init /\ [][Next]_vars

-----------------------------------------------------------------------------
(* State machines of the semantic-quality dimension *)

(* Names of the alias engine: "ab", "Ab " and "ac" *)
AliasNames == {<<"a", "b">>, <<"A", "b", " ">>, <<"a", "c">>}

AliasEntityLists ==
    {[i \in DOMAIN s |-> Entity(s[i])] : s \in SeqsUpTo(AliasNames, MaxAliasEntities)}

Thresholds == {Ratio(1, 2), DefaultThreshold, Ratio(1, 1)}

(* Inputs of the referee-based metrics, over the names "a" and "b" *)
SemanticEntityLists ==
    {<<>>, <<Entity(<<"a">>)>>, <<Entity(<<"a">>), Entity(<<"b">>)>>}

SemanticRelationships ==
    {Relationship(<<"a">>, <<"b">>, "d1", None, None),
     Relationship(<<"a">>, <<"b">>, "d2", None, None),
     Relationship(<<"b">>, <<"a">>, "d1", None, None)}

SemanticRelationshipLists == SeqsUpTo(SemanticRelationships, MaxSemRels)

SemanticSourceTextLists ==
    LET t1 == SourceText("t1", << <<"a">> >>, << <<<<"a">>, <<"b">>>> >>)
        t2 == SourceText("t2", << <<"b">>, <<"a">> >>,
                         << <<<<"a">>, <<"b">>>>, <<<<"b">>, <<"a">>>> >>)
        t3 == SourceText("t3", <<>>, <<>>)
    IN  {<<>>, <<t1>>, <<t2>>, <<t3>>, <<t1, t2>>, <<t2, t1>>}

NoFrame == [method |-> "none"]
NoStrings == <<<<>>, <<>>>>

(* No structural-integrity call has been made *)
StructuralIdle ==
    /\ pagerank_ok = [w \in {"weight", "None"} |-> TRUE]
    /\ graph = NoGraph
    /\ attempts = <<>>
    /\ result = NotCalled
    /\ prevResult = NotCalled

(* No semantic-quality call has been made *)
SemanticIdle ==
    /\ pc = "idle"
    /\ metrics = NotCalled
    /\ frame = NoFrame
    /\ referee_calls = <<>>

SimilarityIdle ==
    /\ sim_args = NoStrings
    /\ sim_result = None

(* No KGEvaluator call has been made *)
KGEvaluatorIdle ==
    /\ requested = None
    /\ evaluation = NotCalled
    /\ summary = NotCalled

(* SemanticQualityEvaluator.evaluate(kg), first statement: *)
(* metrics.update(self._calculate_entity_normalization_score(kg)) *)
NormalizationStep ==
    /\ pc \in {"idle", "returned"}
    /\ pc' = "normalized"
    /\ metrics' = _calculate_entity_normalization_score(kg, evaluator.similarity_threshold)
    /\ frame' = [method |-> "_calculate_entity_normalization_score",
                 alias_pairs |->
                     IF Len(kg.entities) <= 1 THEN None
                     ELSE Some(_find_potential_aliases(
                                   [i \in DOMAIN kg.entities |-> kg.entities[i].entity_name],
                                   evaluator.similarity_threshold))]
    /\ referee_calls' = <<>>
    /\ UNCHANGED <<requested, evaluation, summary, kg, pagerank_ok, graph, attempts, result, prevResult,
                   evaluator, sim_args, sim_result>>

(* second statement, `if self.llm_referee:`; with a referee the call of  *)
(* _calculate_factual_precision runs up to its random.sample, without one *)
(* the metric is set to None                                              *)
FactualPrecisionSample ==
    /\ pc = "normalized"
    /\ IF HasReferee(evaluator)
       THEN LET population == FactualPrecisionPopulation(kg)
                count == SampleCount(evaluator.sample_size, Len(population))
            IN  \E sampled \in Samples(Len(population), count) :
                    /\ pc' = "factual_precision_sampled"
                    /\ frame' = [method |-> "_calculate_factual_precision",
                                 rel_to_source |-> _map_relationships_to_sources(kg),
                                 population |-> population,
                                 sampled |-> sampled]
                    /\ referee_calls' = <<>>
                    /\ UNCHANGED metrics
       ELSE /\ pc' = "factual_precision"
            /\ metrics' = metrics @@ [factual_precision |-> None,
                                      factual_precision_details |-> NotProvided]
            /\ UNCHANGED <<frame, referee_calls>>
    /\ UNCHANGED <<requested, evaluation, summary, kg, pagerank_ok, graph, attempts, result, prevResult,
                   evaluator, sim_args, sim_result>>

(* the loop over the sampled relationships, and the method's return *)
FactualPrecisionLoop ==
    /\ pc = "factual_precision_sampled"
    /\ pc' = "factual_precision"
    /\ \E outcomes \in [DOMAIN frame.sampled ->
                            FactualPrecisionOutcomes(evaluator.llm_referee)] :
          LET verdicts == [i \in DOMAIN outcomes |-> outcomes[i].answer]
          IN  /\ metrics' = metrics
                              @@ _calculate_factual_precision(kg, frame.sampled, verdicts)
              /\ referee_calls' =
                    WithResponses(FactualPrecisionCalls(frame.rel_to_source,
                                                        frame.population,
                                                        frame.sampled, verdicts),
                                  outcomes)
    /\ UNCHANGED <<requested, evaluation, summary, kg, pagerank_ok, graph, attempts, result, prevResult,
                   evaluator, frame, sim_args, sim_result>>

(* third statement: _calculate_contextual_relevance up to its random.sample, *)
(* or None without a referee, after which evaluate returns metrics           *)
ContextualRelevanceSample ==
    /\ pc = "factual_precision"
    /\ IF HasReferee(evaluator)
       THEN LET population == ContextualRelevancePopulation(kg)
                count == SampleCount(evaluator.sample_size, Len(population))
            IN  \E sampled \in Samples(Len(population), count) :
                    /\ pc' = "contextual_relevance_sampled"
                    /\ frame' = [method |-> "_calculate_contextual_relevance",
                                 population |-> population,
                                 sampled |-> sampled]
                    /\ referee_calls' = <<>>
                    /\ UNCHANGED metrics
       ELSE /\ pc' = "returned"
            /\ metrics' = metrics @@ [contextual_relevance |-> None,
                                      contextual_relevance_details |-> NotProvided]
            /\ UNCHANGED <<frame, referee_calls>>
    /\ UNCHANGED <<requested, evaluation, summary, kg, pagerank_ok, graph, attempts, result, prevResult,
                   evaluator, sim_args, sim_result>>

(* the loop over the sampled items; evaluate then returns metrics *)
ContextualRelevanceLoop ==
    /\ pc = "contextual_relevance_sampled"
    /\ pc' = "returned"
    /\ \E outcomes \in [DOMAIN frame.sampled ->
                            ContextualRelevanceOutcomes(evaluator.llm_referee)] :
          LET answers == [i \in DOMAIN outcomes |-> outcomes[i].answer]
          IN  /\ metrics' = metrics
                              @@ _calculate_contextual_relevance(kg, frame.sampled, answers)
              /\ referee_calls' =
                    WithResponses(ContextualRelevanceCalls(frame.population,
                                                           frame.sampled, answers),
                                  outcomes)
    /\ UNCHANGED <<requested, evaluation, summary, kg, pagerank_ok, graph, attempts, result, prevResult,
                   evaluator, frame, sim_args, sim_result>>

NextSemantic ==
    \/ NormalizationStep
    \/ FactualPrecisionSample
    \/ FactualPrecisionLoop
    \/ ContextualRelevanceSample
    \/ ContextualRelevanceLoop

(* Alias detection over entity lists; a referee is supplied and, without *)
(* relationships or source texts, is never called                       *)
InitAlias ==
    /\ kg \in {KnowledgeGraph(es, <<>>, <<>>) : es \in AliasEntityLists}
    /\ evaluator \in {SemanticQualityEvaluator(Some("referee"), DefaultSampleSize, t) :
                         t \in Thresholds}
    /\ StructuralIdle
    /\ SemanticIdle
    /\ SimilarityIdle
    /\ KGEvaluatorIdle

SpecAlias == InitAlias /\ [][NextSemantic]_vars

(* The referee-based metrics, with and without a referee *)
InitSemantic ==
    /\ kg \in {KnowledgeGraph(es, rs, sts) :
                  es \in SemanticEntityLists,
                  rs \in SemanticRelationshipLists,
                  sts \in SemanticSourceTextLists}
    /\ evaluator \in {SemanticQualityEvaluator(r, n, DefaultThreshold) :
                         r \in {None, Some("referee")}, n \in 0..MaxSample}
    /\ StructuralIdle
    /\ SemanticIdle
    /\ SimilarityIdle
    /\ KGEvaluatorIdle

SpecSemantic == InitSemantic /\ [][NextSemantic]_vars

(* The referee-based metrics with a bundled referee: two relationships, *)
(* both linked by the one source text                                   *)
RefereeRelationshipLists ==
    {<<Relationship(<<"a">>, <<"b">>, "d1", None, None)>>,
     <<Relationship(<<"a">>, <<"b">>, "d1", None, None),
       Relationship(<<"b">>, <<"a">>, "d1", None, None)>>}

RefereeSourceTexts ==
    <<SourceText("t2", << <<"b">>, <<"a">> >>,
                 << <<<<"a">>, <<"b">>>>, <<<<"b">>, <<"a">>>> >>)>>

InitReferee ==
    /\ kg \in {KnowledgeGraph(<<>>, rs, RefereeSourceTexts) :
                  rs \in RefereeRelationshipLists}
    /\ evaluator \in {SemanticQualityEvaluator(Some(r), n, DefaultThreshold) :
                         r \in BundledReferees, n \in 1..MaxSample}
    /\ StructuralIdle
    /\ SemanticIdle
    /\ SimilarityIdle
    /\ KGEvaluatorIdle

SpecReferee == InitReferee /\ [][NextSemantic]_vars

(* A direct call of _calculate_string_similarity(str1, str2) *)
CalculateStringSimilarity ==
    /\ sim_result' = Some(_calculate_string_similarity(sim_args[1], sim_args[2]))
    /\ UNCHANGED <<requested, evaluation, summary, kg, pagerank_ok, graph, attempts, result, prevResult,
                   evaluator, pc, metrics, frame, referee_calls, sim_args>>

NextSimilarity == CalculateStringSimilarity

InitSimilarity ==
    /\ kg = KnowledgeGraph(<<>>, <<>>, <<>>)
    /\ evaluator = SemanticQualityEvaluator(None, DefaultSampleSize, DefaultThreshold)
    /\ StructuralIdle
    /\ SemanticIdle
    /\ sim_args \in Strings \X Strings
    /\ sim_result = None
    /\ KGEvaluatorIdle

SpecSimilarity == InitSimilarity /\ [][NextSimilarity]_vars


(* Inputs of KGEvaluator.evaluate: entities with and without optional fields, *)
(* a name at two positions, blank names; relationships with absent, empty and *)
(* filled optional fields, an empty description, a dangling endpoint; source  *)
(* texts with empty content and nothing linked                                *)
EvaluatorEntityLists ==
    LET a == Entity(<<"a">>)
        b == Entity(<<"b">>)
        blank == Entity(<<" ">>)
        described == [entity_name |-> <<"a">>, entity_type |-> Some("T"),
                      description |-> Some("text")]
        typed == [entity_name |-> <<"b">>, entity_type |-> Some("T"),
                  description |-> None]
    IN  {<<>>, <<a>>, <<a, a>>, <<a, b>>, <<described, typed>>,
         <<a, described>>, <<blank, blank>>}

EvaluatorRelationshipLists ==
    LET r1 == Relationship(<<"a">>, <<"b">>, <<"A", " ", "b", " ", "c">>, None, None)
        r2 == Relationship(<<"a">>, <<"c">>, <<>>, Some(<<>>), Some(0))
        r3 == Relationship(<<"b">>, <<"a">>, <<"a">>,
                           Some(<< <<"K", " ">>, <<"k">> >>), Some(5))
    IN  {<<>>, <<r1>>, <<r2>>, <<r3>>, <<r1, r3>>, <<r1, r1>>, <<r2, r3>>}

EvaluatorSourceTextLists ==
    LET s0 == SourceText(<<>>, <<>>, <<>>)
        s1 == SourceText(<<"x", "y">>, << <<"a">> >>, << <<<<"a">>, <<"b">>>> >>)
    IN  {<<>>, <<s0>>, <<s1>>, <<s0, s1>>}

(* The include_dimensions arguments: absent, empty, single, several, repeated *)
IncludeDimensions ==
    {None, Some(<<>>),
     Some(<<"scale_richness">>), Some(<<"structural_integrity">>),
     Some(<<"semantic_quality">>), Some(<<"efficiency">>),
     Some(<<"efficiency", "semantic_quality", "structural_integrity",
            "scale_richness">>),
     Some(<<"semantic_quality", "structural_integrity">>),
     Some(<<"efficiency", "efficiency">>)}

(* KGEvaluator.evaluate(kg, include_dimensions), called once *)
KGEvaluate ==
    /\ evaluation = NotCalled
    /\ \E include_argument \in IncludeDimensions :
          /\ requested' = include_argument
          /\ \E env \in IF InList("semantic_quality",
                                  IF include_argument = None THEN AllDimensions
                                  ELSE include_argument[1])
                         THEN SemanticEnvironments(kg, evaluator)
                         ELSE SemanticEnvironments(kg, SemanticQualityEvaluator(
                                                           None, 0, DefaultThreshold)) :
                evaluation' = KGEvaluatorEvaluate(evaluator, kg, include_argument,
                                                  pagerank_ok, env)
    /\ summary' = NotCalled
    /\ UNCHANGED <<kg, pagerank_ok, graph, attempts, result, prevResult,
                   evaluator, pc, metrics, frame, referee_calls, sim_args, sim_result>>

(* KGEvaluator.get_evaluation_summary(results), on the results evaluate returned *)
GetEvaluationSummary ==
    /\ evaluation.kind = "returned"
    /\ summary = NotCalled
    /\ summary' = Returned(get_evaluation_summary(evaluation.value))
    /\ UNCHANGED <<requested, evaluation, kg, pagerank_ok, graph, attempts, result,
                   prevResult, evaluator, pc, metrics, frame, referee_calls,
                   sim_args, sim_result>>

NextEvaluator == KGEvaluate \/ GetEvaluationSummary

InitEvaluator ==
    /\ kg \in {KnowledgeGraph(es, rs, sts) :
                  es \in EvaluatorEntityLists,
                  rs \in EvaluatorRelationshipLists,
                  sts \in EvaluatorSourceTextLists}
    /\ pagerank_ok \in {[w \in {"weight", "None"} |-> TRUE],
                        [w \in {"weight", "None"} |-> FALSE]}
    /\ evaluator \in {SemanticQualityEvaluator(r, n, t) :
                         r \in {None, Some("referee")},
                         n \in {1, DefaultSampleSize},
                         t \in {DefaultThreshold, Ratio(1, 1)}}
    /\ graph = NoGraph
    /\ attempts = <<>>
    /\ result = NotCalled
    /\ prevResult = NotCalled
    /\ SemanticIdle
    /\ SimilarityIdle
    /\ KGEvaluatorIdle

SpecEvaluator == InitEvaluator /\ [][NextEvaluator]_vars


-----------------------------------------------------------------------------
(* Vocabulary of the properties, read off the KnowledgeGraph itself *)

EntityNames(k) == {k.entities[i].entity_name : i \in DOMAIN k.entities}

PairAt(k, i) ==
    <<k.relationships[i].source_entity_name, k.relationships[i].target_entity_name>>

Pairs(k) == {PairAt(k, i) : i \in DOMAIN k.relationships}

Endpoints(k) == {p[1] : p \in Pairs(k)} \cup {p[2] : p \in Pairs(k)}

ExpectedNodes(k) == EntityNames(k) \cup Endpoints(k)

(* The last relationship of the list with the pair p *)
LastWith(k, p) ==
    k.relationships[CHOOSE i \in DOMAIN k.relationships :
                        /\ PairAt(k, i) = p
                        /\ \A j \in DOMAIN k.relationships : j > i => PairAt(k, j) # p]

DistinctNames(k) == Cardinality(EntityNames(k)) = Len(k.entities)

(* u and v are joined by a relationship in either direction *)
Linked(k, u, v) == <<u, v>> \in Pairs(k) \/ <<v, u>> \in Pairs(k)

RECURSIVE WithinSteps(_, _, _)
WithinSteps(k, S, steps) ==
    IF steps = 0 THEN S
    ELSE WithinSteps(k, S \cup {n \in ExpectedNodes(k) : \E m \in S : Linked(k, m, n)},
                     steps - 1)

ExpectedComponents(k) ==
    {WithinSteps(k, {n}, Cardinality(ExpectedNodes(k))) : n \in ExpectedNodes(k)}

(* x, in ten-thousandths, is num / den to four decimal places *)
IsRatio(x, num, den) ==
    LET diff == x * den - num * 10000
    IN  2 * (IF diff >= 0 THEN diff ELSE -diff) <= den

EmptyInput == Len(kg.entities) = 0 \/ Len(kg.relationships) = 0

GraphBuilt == graph # NoGraph

(* evaluate returned the metrics of the non-empty path *)
HasMetrics == result.kind = "returned" /\ ~EmptyInput

(* The relationships are one directed cycle through all the (distinct) entities *)
IsDirectedCycle(k) ==
    LET n == Len(k.entities)
    IN  /\ n >= 1
        /\ DistinctNames(k)
        /\ Len(k.relationships) = n
        /\ Cardinality(Pairs(k)) = n
        /\ Endpoints(k) = EntityNames(k)
        /\ \A u \in EntityNames(k) :
              /\ Cardinality({p \in Pairs(k) : p[1] = u}) = 1
              /\ Cardinality({p \in Pairs(k) : p[2] = u}) = 1
        /\ Cardinality(ExpectedComponents(k)) = 1

-----------------------------------------------------------------------------
(* C1: whenever the entity list or the relationship list is empty, evaluate *)
(* returns exactly the fixed empty result, and does not raise.              *)
C1_EmptyGraphResult ==
    (result.kind # "not_called" /\ EmptyInput) =>
        result = [kind |-> "returned",
                  value |-> [graph_density |-> 0,
                             largest_connected_component_ratio |-> 0,
                             singleton_ratio |-> 10000,
                             connected_components_count |-> 0,
                             average_degree_centrality |-> 0,
                             pagerank_entropy |-> 0,
                             centrality_distribution_stats |->
                                [mean |-> 0, std |-> 0, max |-> 0, min |-> 0]]]

C1_Witness ==
    /\ result.kind = "returned"
    /\ Len(kg.entities) > 0
    /\ Len(kg.relationships) = 0

(* C2: the built graph has one edge per (source, target) pair, and the edge *)
(* carries the description, keywords and weight of the last relationship of *)
(* the list with that pair: the same attributes as when that relationship   *)
(* is the only one, whatever the earlier ones were.                         *)
C2_LastWriteWins ==
    GraphBuilt =>
        \A p \in Pairs(kg) :
            /\ p \in DOMAIN graph.adj
            /\ LET last == LastWith(kg, p)
                   e == graph.adj[p]
                   alone == _build_networkx_graph(
                                KnowledgeGraph(<<>>, <<last>>, <<>>)).adj[p]
               IN  /\ e.description = last.description
                   /\ e.keywords = last.keywords
                   /\ e.weight = alone.weight
                   /\ last.weight = None => e.weight = 10
                   /\ (last.weight # None /\ last.weight[1] # 0) =>
                          e.weight = last.weight[1]

C2_Witness ==
    /\ GraphBuilt
    /\ \E i, j \in DOMAIN kg.relationships :
          /\ i < j
          /\ PairAt(kg, i) = PairAt(kg, j)
          /\ kg.relationships[i].description # kg.relationships[j].description
          /\ kg.relationships[i].keywords # kg.relationships[j].keywords
          /\ kg.relationships[j].weight = <<5>>
          /\ graph.adj[PairAt(kg, j)].weight = 5

(* C3: the nodes of the built graph are the entity names together with the *)
(* relationship endpoints, its edges are the distinct (source, target)      *)
(* pairs, and a relationship with an endpoint outside the entity list is    *)
(* kept.                                                                    *)
C3_NodesAndEdges ==
    GraphBuilt =>
        /\ DOMAIN graph.node = EntityNames(kg) \cup Endpoints(kg)
        /\ DOMAIN graph.adj = Pairs(kg)
        /\ Endpoints(kg) \subseteq EntityNames(kg) =>
              DOMAIN graph.node = EntityNames(kg)

C3_Witness ==
    /\ GraphBuilt
    /\ \E p \in Pairs(kg) : p[1] \notin EntityNames(kg) /\ p[2] \in EntityNames(kg)
    /\ Cardinality(Pairs(kg)) < Len(kg.relationships)

(* C4 (as claimed): an edge's weight is its relationship's weight whenever  *)
(* one is present, zero included, and 1.0 only when the weight is absent.   *)
C4_WeightKept ==
    GraphBuilt =>
        \A p \in Pairs(kg) :
            LET last == LastWith(kg, p)
            IN  /\ last.weight = None => graph.adj[p].weight = 10
                /\ last.weight # None => graph.adj[p].weight = last.weight[1]

(* C5: on the non-empty path graph_density is len(relationships) /          *)
(* len(entities) of the original lists, to the four decimals reported, and  *)
(* networkx_density is a field of its own holding the density of the built  *)
(* graph, edges / (nodes * (nodes - 1)).                                    *)
C5_DomainDensity ==
    HasMetrics =>
        /\ IsRatio(result.value.graph_density, Len(kg.relationships), Len(kg.entities))
        /\ "networkx_density" \in DOMAIN result.value
        /\ LET n == Cardinality(ExpectedNodes(kg))
               m == Cardinality(Pairs(kg))
           IN  IF n <= 1 THEN result.value.networkx_density = 0
               ELSE IsRatio(result.value.networkx_density, m, n * (n - 1))

C5_Witness ==
    /\ HasMetrics
    /\ Cardinality(Pairs(kg)) < Len(kg.relationships)
    /\ Cardinality(ExpectedNodes(kg)) > Len(kg.entities)
    /\ result.value.graph_density = 20000
    /\ result.value.networkx_density = 5000

(* C6: on the non-empty path the components are those of the undirected     *)
(* view of the graph; the metrics are largest size / nodes, components of   *)
(* size 1 / nodes, the number of components, and the size distribution.     *)
C6_Connectedness ==
    HasMetrics =>
        LET comps == ExpectedComponents(kg)
            n == Cardinality(ExpectedNodes(kg))
            m == result.value
        IN  /\ \E c \in comps :
                  /\ \A d \in comps : Cardinality(d) <= Cardinality(c)
                  /\ IsRatio(m.largest_connected_component_ratio, Cardinality(c), n)
            /\ IsRatio(m.singleton_ratio,
                       Cardinality({c \in comps : Cardinality(c) = 1}), n)
            /\ m.connected_components_count = Cardinality(comps)
            /\ DOMAIN m.component_size_distribution = {Cardinality(c) : c \in comps}
            /\ \A s \in DOMAIN m.component_size_distribution :
                  m.component_size_distribution[s] =
                      Cardinality({c \in comps : Cardinality(c) = s})

C6_Witness ==
    /\ HasMetrics
    /\ result.value.connected_components_count = 2
    /\ result.value.component_size_distribution = (1 :> 1) @@ (2 :> 1)
    /\ result.value.largest_connected_component_ratio = 6667
    /\ result.value.singleton_ratio = 3333
    /\ \E p \in Pairs(kg) : <<p[2], p[1]>> \notin Pairs(kg)

(* C7 (as claimed): N >= 1 entities with distinct names and no              *)
(* relationships give singleton_ratio 1.0 and an LCC ratio of 1/N.          *)
C7_IsolatedEntities ==
    (result.kind # "not_called" /\ Len(kg.relationships) = 0
        /\ Len(kg.entities) >= 1 /\ DistinctNames(kg)) =>
        /\ result.kind = "returned"
        /\ result.value.singleton_ratio = 10000
        /\ IsRatio(result.value.largest_connected_component_ratio, 1, Len(kg.entities))

(* C7 (amended): N >= 1 entities with distinct names and no relationships   *)
(* give the fixed empty result: singleton_ratio 1.0, LCC ratio 0.0 and      *)
(* connected_components_count 0.                                            *)
C7_IsolatedEntitiesEmptyResult ==
    (result.kind # "not_called" /\ Len(kg.relationships) = 0
        /\ Len(kg.entities) >= 1 /\ DistinctNames(kg)) =>
        /\ result.kind = "returned"
        /\ result.value.singleton_ratio = 10000
        /\ result.value.largest_connected_component_ratio = 0
        /\ result.value.connected_components_count = 0

C7_Witness ==
    /\ result.kind = "returned"
    /\ Len(kg.relationships) = 0
    /\ Len(kg.entities) = 3
    /\ DistinctNames(kg)

(* C8 (as claimed): a single directed cycle through all N >= 1 entities     *)
(* (N = 1: one self-loop) gives LCC ratio 1.0, singleton_ratio 0.0 and one  *)
(* component.                                                               *)
C8_DirectedCycle ==
    (HasMetrics /\ IsDirectedCycle(kg)) =>
        /\ result.value.largest_connected_component_ratio = 10000
        /\ result.value.singleton_ratio = 0
        /\ result.value.connected_components_count = 1

(* C8 (amended): a single directed cycle through all N entities gives LCC   *)
(* ratio 1.0 and one component; singleton_ratio is 0.0 for N >= 2 and 1.0   *)
(* for N = 1, where the one node with its self-loop is a component of size  *)
(* 1.                                                                       *)
C8_DirectedCycleFromTwo ==
    (HasMetrics /\ IsDirectedCycle(kg)) =>
        /\ result.value.largest_connected_component_ratio = 10000
        /\ result.value.connected_components_count = 1
        /\ Len(kg.entities) >= 2 => result.value.singleton_ratio = 0
        /\ Len(kg.entities) = 1 => result.value.singleton_ratio = 10000

C8_Witness ==
    /\ HasMetrics
    /\ IsDirectedCycle(kg)
    /\ Len(kg.entities) = 2
    /\ result.value.singleton_ratio = 0

(* C9 (as claimed): singleton_ratio is the fraction of graph nodes that no  *)
(* relationship has as source or target.                                    *)
C9_SingletonNoIncidentEdge ==
    HasMetrics =>
        IsRatio(result.value.singleton_ratio,
                Cardinality(ExpectedNodes(kg) \ Endpoints(kg)),
                Cardinality(ExpectedNodes(kg)))

(* C9 (amended): singleton_ratio is the fraction of graph nodes that no     *)
(* relationship joins to another node; a node whose only relationships are  *)
(* self-loops is counted as a singleton.                                    *)
C9_SingletonNoOtherNode ==
    HasMetrics =>
        IsRatio(result.value.singleton_ratio,
                Cardinality({n \in ExpectedNodes(kg) :
                                \A p \in Pairs(kg) : n \in {p[1], p[2]} => p[1] = p[2]}),
                Cardinality(ExpectedNodes(kg)))

C9_Witness ==
    /\ HasMetrics
    /\ <<"A", "A">> \in Pairs(kg)
    /\ <<"B", "C">> \in Pairs(kg)
    /\ "A" \in EntityNames(kg)
    /\ result.value.singleton_ratio = 3333

-----------------------------------------------------------------------------
(* Vocabulary of the alias properties, read off kg and the evaluator *)

NameAt(i) == kg.entities[i].entity_name

(* The unordered pairs of positions (i, j), i < j, of the entity list from *)
(* (i, j) on, each with the similarity of its two names                   *)
RECURSIVE PairsFrom(_, _)
PairsFrom(i, j) ==
    IF i >= Len(kg.entities) THEN <<>>
    ELSE IF j > Len(kg.entities) THEN PairsFrom(i + 1, i + 2)
    ELSE <<[i |-> i, j |-> j,
            similarity |-> _calculate_string_similarity(NameAt(i), NameAt(j))]>>
         \o PairsFrom(i, j + 1)

IndexPairs == PairsFrom(1, 2)

(* x - y for two fractions, up to a positive factor *)
Difference(x, y) == x.num * y.den - y.num * x.den

(* The pairs whose similarity is at least the threshold *)
MeetingThreshold(pairs) ==
    {k \in DOMAIN pairs :
        Difference(pairs[k].similarity, evaluator.similarity_threshold) >= 0}

TupleAt(pairs, k) == <<NameAt(pairs[k].i), NameAt(pairs[k].j), pairs[k].similarity>>

(* The normalization score has been computed by the running or last evaluate *)
Normalized == pc # "idle"

(* _find_potential_aliases has just returned its list *)
AliasesFound ==
    /\ pc = "normalized"
    /\ frame.alias_pairs # None

AliasPairs == frame.alias_pairs[1]

Occurrences(list, t) == Cardinality({i \in DOMAIN list : list[i] = t})

(* p comes before q in the order of the double loop *)
DiscoveredBefore(p, q) == p.i < q.i \/ (p.i = q.i /\ p.j < q.j)

(* The place of the pair k among the pairs meeting the threshold: after the *)
(* more similar pairs and the equally similar pairs discovered earlier      *)
Rank(pairs, meeting, k) ==
    1 + Cardinality({l \in meeting :
                        \/ Difference(pairs[l].similarity, pairs[k].similarity) > 0
                        \/ /\ Difference(pairs[l].similarity, pairs[k].similarity) = 0
                           /\ DiscoveredBefore(pairs[l], pairs[k])})

-----------------------------------------------------------------------------
(* C11: alias detection retains a pair of entity names if and only if its *)
(* similarity is greater than or equal to the threshold: every pair of    *)
(* positions at or above the threshold, a pair exactly at the threshold   *)
(* included, is in the alias pairs, nothing else is, and alias_pairs_count *)
(* is the number of these pairs.                                          *)
C11_ThresholdInclusive ==
    \A pairs \in {IndexPairs} : \A meeting \in {MeetingThreshold(pairs)} :
        /\ Normalized => metrics.alias_pairs_count = Cardinality(meeting)
        /\ AliasesFound =>
              /\ \A k \in meeting :
                    Occurrences(AliasPairs, TupleAt(pairs, k))
                        = Cardinality({l \in meeting :
                                          TupleAt(pairs, l) = TupleAt(pairs, k)})
              /\ \A i \in DOMAIN AliasPairs :
                    \E k \in meeting : TupleAt(pairs, k) = AliasPairs[i]

(* A pair exactly at the threshold 0.5 is retained *)
C11_Witness ==
    /\ AliasesFound
    /\ evaluator.similarity_threshold = [num |-> 1, den |-> 2]
    /\ \E i \in DOMAIN AliasPairs : AliasPairs[i][3] = [num |-> 1, den |-> 2]
    /\ metrics.alias_pairs_count >= 1

-----------------------------------------------------------------------------
(* C12: the similarity of a name with itself is 1.0 whenever its          *)
(* normalized form is not empty (it has a character that is not a space), *)
(* and a call with an empty string on either side, two empty strings      *)
(* included, returns 0.0.                                                 *)
C12_SelfAndEmptySimilarity ==
    sim_result # None =>
        /\ (/\ sim_args[1] = sim_args[2]
            /\ \E i \in DOMAIN sim_args[1] : sim_args[1][i] # " ")
              => sim_result[1] = [num |-> 1, den |-> 1]
        /\ (Len(sim_args[1]) = 0 \/ Len(sim_args[2]) = 0)
              => sim_result[1] = [num |-> 0, den |-> 1]

(* The call on two empty strings has returned 0.0 *)
C12_Witness ==
    /\ sim_args = <<<<>>, <<>>>>
    /\ sim_result = <<[num |-> 0, den |-> 1]>>

-----------------------------------------------------------------------------
(* C13: the alias pairs are in order of non-increasing similarity, pairs  *)
(* of equal similarity in the order of their index pairs (i, j), i < j,   *)
(* and each pair of positions meeting the threshold is there once.        *)
C13_StableDescending ==
    AliasesFound =>
        \A pairs \in {IndexPairs} : \A meeting \in {MeetingThreshold(pairs)} :
            /\ Len(pairs) * 2 = Len(kg.entities) * (Len(kg.entities) - 1)
            /\ \A k, l \in DOMAIN pairs :
                  (pairs[k].i = pairs[l].i /\ pairs[k].j = pairs[l].j) => k = l
            /\ Len(AliasPairs) = Cardinality(meeting)
            /\ \A k \in meeting :
                  AliasPairs[Rank(pairs, meeting, k)] = TupleAt(pairs, k)
            /\ \A i, j \in DOMAIN AliasPairs :
                  i < j => Difference(AliasPairs[i][3], AliasPairs[j][3]) >= 0

(* Two different pairs tie at the top of the list, above a less similar one *)
C13_Witness ==
    /\ AliasesFound
    /\ Len(AliasPairs) >= 3
    /\ AliasPairs[1][3] = AliasPairs[2][3]
    /\ AliasPairs[1] # AliasPairs[2]
    /\ AliasPairs[Len(AliasPairs)][3] # AliasPairs[1][3]

-----------------------------------------------------------------------------
(* C14: entity_normalization_score is max(0, 1 - alias_pairs_count / n)   *)
(* for n entities, alias_pairs_count counting all the pairs meeting the   *)
(* threshold; potential_alias_pairs is the first min(10, count) pairs of  *)
(* the sorted list; with 0 or 1 entities the score is 1.0, without pairs. *)
C14_ScoreAndDisplay ==
    Normalized =>
        LET n == Len(kg.entities)
            count == Cardinality(MeetingThreshold(IndexPairs))
            shown == IF count < 10 THEN count ELSE 10
        IN  IF n <= 1
            THEN /\ metrics.entity_normalization_score = 10000
                 /\ metrics.potential_alias_pairs = <<>>
                 /\ metrics.alias_pairs_count = 0
            ELSE /\ metrics.alias_pairs_count = count
                 /\ IF count >= n
                    THEN metrics.entity_normalization_score = 0
                    ELSE IsRatio(metrics.entity_normalization_score, n - count, n)
                 /\ Len(metrics.potential_alias_pairs) = shown
                 /\ AliasesFound =>
                       metrics.potential_alias_pairs = SubSeq(AliasPairs, 1, shown)

(* More than ten pairs meet the threshold and ten are displayed *)
C14_Witness ==
    /\ AliasesFound
    /\ Len(AliasPairs) > 10
    /\ metrics.alias_pairs_count = Len(AliasPairs)
    /\ Len(metrics.potential_alias_pairs) = 10

-----------------------------------------------------------------------------
(* C15: with at least one entity the normalization score is between 0 and *)
(* 1, also when there are more alias pairs than entities.                 *)
C15_ScoreInUnitInterval ==
    (Normalized /\ Len(kg.entities) >= 1) =>
        /\ metrics.entity_normalization_score >= 0
        /\ metrics.entity_normalization_score <= 10000

(* More alias pairs than entities *)
C15_Witness ==
    /\ Normalized
    /\ metrics.alias_pairs_count > Len(kg.entities)
    /\ metrics.entity_normalization_score = 0

-----------------------------------------------------------------------------
(* Vocabulary of the referee properties *)

NoReferee == evaluator.llm_referee = <<>>

(* evaluate is past its factual-precision statement *)
FactualPrecisionSet == pc \in {"factual_precision", "contextual_relevance_sampled", "returned"}

(* _calculate_factual_precision has just returned *)
FactualPrecisionReturned ==
    /\ pc = "factual_precision"
    /\ ~NoReferee
    /\ frame.method = "_calculate_factual_precision"

(* _calculate_contextual_relevance has just returned *)
ContextualRelevanceReturned ==
    /\ pc = "returned"
    /\ ~NoReferee
    /\ frame.method = "_calculate_contextual_relevance"

(* The positions of kg.source_texts whose linked_edges list the endpoints of r *)
SourceTextsListing(r) ==
    {s \in DOMAIN kg.source_texts :
        \E e \in DOMAIN kg.source_texts[s].linked_edges :
            kg.source_texts[s].linked_edges[e]
                = <<r.source_entity_name, r.target_entity_name>>}

CallsAnswered(answers) ==
    Cardinality({i \in DOMAIN referee_calls : referee_calls[i].answer \in answers})

-----------------------------------------------------------------------------
(* C16: without a referee, evaluate reports factual_precision and         *)
(* contextual_relevance as None, not as a number, each with the details   *)
(* string, calls no referee, and still computes the normalization score.  *)
C16_NoRefereeNoMetrics ==
    NoReferee =>
        /\ referee_calls = <<>>
        /\ FactualPrecisionSet =>
              /\ metrics.factual_precision = <<>>
              /\ metrics.factual_precision_details = "LLM referee not provided"
        /\ pc = "returned" =>
              /\ metrics.contextual_relevance = <<>>
              /\ metrics.contextual_relevance_details = "LLM referee not provided"
              /\ metrics.alias_pairs_count = Cardinality(MeetingThreshold(IndexPairs))
              /\ metrics.entity_normalization_score
                    = IF Len(kg.entities) <= 1 \/ metrics.alias_pairs_count = 0
                      THEN 10000 ELSE 0

(* evaluate has returned without a referee on a graph a referee could judge *)
C16_Witness ==
    /\ NoReferee
    /\ pc = "returned"
    /\ evaluator.sample_size >= 1
    /\ Len(kg.entities) = 2
    /\ \E i \in DOMAIN kg.relationships : SourceTextsListing(kg.relationships[i]) # {}
    /\ metrics.factual_precision = <<>>

-----------------------------------------------------------------------------
(* C17: when several source texts list an edge matching a relationship,   *)
(* the passage the relationship is resolved to, and that the referee is   *)
(* given with it, is the first of them in kg.source_texts order.          *)
C17_FirstSourceTextWins ==
    FactualPrecisionReturned =>
        /\ \A i \in DOMAIN frame.rel_to_source :
              frame.rel_to_source[i].value
                  = SetMin(SourceTextsListing(frame.rel_to_source[i].key))
        /\ \A c \in DOMAIN referee_calls :
              referee_calls[c].source_text = SetMin(SourceTextsListing(referee_calls[c].item))

-----------------------------------------------------------------------------
(* C18: a relationship whose (source, target) pair is in no source text's *)
(* linked_edges is not in the evaluable list, is not passed to the        *)
(* referee, and is not counted: the counts cover linked relationships only. *)
C18_UnlinkedNeverEvaluated ==
    FactualPrecisionReturned =>
        /\ \A i \in DOMAIN frame.population :
              SourceTextsListing(frame.population[i]) # {}
        /\ \A c \in DOMAIN referee_calls :
              SourceTextsListing(referee_calls[c].item) # {}
        /\ metrics.factual_precision_details.total_evaluated
              <= Cardinality({i \in DOMAIN kg.relationships :
                                 SourceTextsListing(kg.relationships[i]) # {}})
        /\ metrics.factual_precision_details.correct
              + metrics.factual_precision_details.partially_correct
              + metrics.factual_precision_details.incorrect
              = Len(referee_calls)

(* A linked relationship was judged while an unlinked one was in the graph *)
C18_Witness ==
    /\ FactualPrecisionReturned
    /\ \E i \in DOMAIN kg.relationships : SourceTextsListing(kg.relationships[i]) = {}
    /\ Len(referee_calls) >= 1
    /\ evaluator.sample_size = 2
    /\ metrics.factual_precision_details.total_evaluated = 1

-----------------------------------------------------------------------------
(* C19: for factual precision and for contextual relevance, the number of *)
(* referee calls is total_evaluated and is min(sample_size, length of the *)
(* evaluable list), and the calls are on distinct positions of that list. *)
C19_SampleWithoutReplacement ==
    /\ FactualPrecisionReturned =>
          /\ Len(referee_calls) = metrics.factual_precision_details.total_evaluated
    /\ ContextualRelevanceReturned =>
          /\ Len(referee_calls) = metrics.contextual_relevance_details.total_evaluated
    /\ (FactualPrecisionReturned \/ ContextualRelevanceReturned) =>
          /\ Len(referee_calls)
                = IF evaluator.sample_size < Len(frame.population)
                  THEN evaluator.sample_size ELSE Len(frame.population)
          /\ \A c \in DOMAIN referee_calls :
                /\ referee_calls[c].position \in DOMAIN frame.population
                /\ \A d \in DOMAIN referee_calls :
                      referee_calls[c].position = referee_calls[d].position => c = d

(* Two of at least three knowledge items were sampled and judged *)
C19_Witness ==
    /\ ContextualRelevanceReturned
    /\ Len(referee_calls) = 2
    /\ Len(frame.population) >= 3
    /\ metrics.factual_precision_details.total_evaluated = 2

-----------------------------------------------------------------------------
(* C20: after the factual-precision loop the three counts add up to       *)
(* total_evaluated, each verdict is counted once (correct,                *)
(* partially_correct, anything else as incorrect), and factual_precision  *)
(* is (correct + 0.5 * partially_correct) / total_evaluated.              *)
C20_VerdictBuckets ==
    FactualPrecisionReturned =>
        LET details == metrics.factual_precision_details
        IN  /\ details.correct + details.partially_correct + details.incorrect
                  = details.total_evaluated
            /\ details.correct = CallsAnswered({"correct"})
            /\ details.partially_correct = CallsAnswered({"partially_correct"})
            /\ details.incorrect = Len(referee_calls)
                                     - CallsAnswered({"correct", "partially_correct"})
            /\ details.total_evaluated > 0 =>
                  IsRatio(metrics.factual_precision[1],
                          2 * details.correct + details.partially_correct,
                          2 * details.total_evaluated)

(* A verdict outside the three and a partially_correct one were counted *)
C20_Witness ==
    /\ FactualPrecisionReturned
    /\ Len(referee_calls) = 2
    /\ CallsAnswered({"unknown"}) = 1
    /\ CallsAnswered({"partially_correct"}) = 1
    /\ metrics.factual_precision_details.incorrect = 1
    /\ metrics.factual_precision = <<2500>>


-----------------------------------------------------------------------------
(* The (entity position, source text position) pairs in which the source *)
(* text lists the entity's name                                           *)
EntityListings ==
    {p \in (DOMAIN kg.entities) \X (DOMAIN kg.source_texts) :
        \E n \in DOMAIN kg.source_texts[p[2]].linked_entity_names :
            kg.source_texts[p[2]].linked_entity_names[n]
                = kg.entities[p[1]].entity_name}

(* The (source, target) pairs of relationships that some source text links *)
LinkedPairs ==
    {p \in Pairs(kg) :
        \E s \in DOMAIN kg.source_texts :
            \E e \in DOMAIN kg.source_texts[s].linked_edges :
                kg.source_texts[s].linked_edges[e] = p}

ItemsOfType(type) ==
    {i \in DOMAIN frame.population : frame.population[i].item_type = type}

(* C21: after the contextual-relevance loop core_facts + marginal_facts is *)
(* total_evaluated and contextual_relevance is core_facts /                *)
(* total_evaluated; the candidate items are one per (entity, source text)  *)
(* pair in which the source text lists the entity's name, plus one per     *)
(* relationship mapped to a source text.                                   *)
C21_CoreAndMarginal ==
    ContextualRelevanceReturned =>
        LET details == metrics.contextual_relevance_details
        IN  /\ details.core_facts + details.marginal_facts = details.total_evaluated
            /\ details.core_facts = CallsAnswered({TRUE})
            /\ details.marginal_facts = CallsAnswered({FALSE})
            /\ details.total_evaluated > 0 =>
                  IsRatio(metrics.contextual_relevance[1],
                          details.core_facts, details.total_evaluated)
            /\ Cardinality(ItemsOfType("entity")) = Cardinality(EntityListings)
            /\ \A p \in EntityListings :
                  \E i \in ItemsOfType("entity") :
                      /\ frame.population[i].knowledge_item = kg.entities[p[1]]
                      /\ frame.population[i].source_text = p[2]
            /\ Cardinality(ItemsOfType("relationship")) = Cardinality(LinkedPairs)
            /\ \A p \in LinkedPairs :
                  \E i \in ItemsOfType("relationship") :
                      <<frame.population[i].knowledge_item.source_entity_name,
                        frame.population[i].knowledge_item.target_entity_name>> = p
            /\ Len(frame.population)
                  = Cardinality(EntityListings) + Cardinality(LinkedPairs)

(* An entity listed by two source texts gave two items, a relationship one, *)
(* and of two judged items one was core and one marginal                    *)
C21_Witness ==
    /\ ContextualRelevanceReturned
    /\ \E p, q \in EntityListings : p[1] = q[1] /\ p[2] # q[2]
    /\ LinkedPairs # {}
    /\ metrics.contextual_relevance_details.core_facts = 1
    /\ metrics.contextual_relevance_details.marginal_facts = 1
    /\ metrics.contextual_relevance = <<5000>>

-----------------------------------------------------------------------------
(* Position i holds the first relationship of kg.relationships for its *)
(* (source, target) pair, and some source text links that pair         *)
FirstOfLinkedPair(i) ==
    /\ PairAt(kg, i) \in LinkedPairs
    /\ \A j \in DOMAIN kg.relationships : PairAt(kg, j) = PairAt(kg, i) => i <= j

SameTriple(r1, r2) ==
    /\ r1.source_entity_name = r2.source_entity_name
    /\ r1.target_entity_name = r2.target_entity_name
    /\ r1.description = r2.description

Evaluable(r) ==
    \E i \in DOMAIN kg.relationships :
        FirstOfLinkedPair(i) /\ SameTriple(kg.relationships[i], r)

(* C27: a relationship is in the factual-precision evaluable list iff it  *)
(* is equal (source, target, description) to a relationship that is the   *)
(* first of kg.relationships for its (source, target) pair and whose pair *)
(* some source text links; a later relationship with the same pair and a  *)
(* different description is not evaluable, and equal relationships at     *)
(* different positions are all evaluable.                                 *)
C27_EvaluableSet ==
    FactualPrecisionReturned =>
        /\ frame.population = SelectSeq(kg.relationships, Evaluable)
        /\ \A i, j \in DOMAIN kg.relationships :
              /\ FirstOfLinkedPair(i)
              /\ PairAt(kg, j) = PairAt(kg, i)
              /\ kg.relationships[j].description # kg.relationships[i].description
              => \A p \in DOMAIN frame.population :
                    ~SameTriple(frame.population[p], kg.relationships[j])
        /\ \A i \in DOMAIN kg.relationships :
              FirstOfLinkedPair(i) =>
                  Cardinality({p \in DOMAIN frame.population :
                                  SameTriple(frame.population[p], kg.relationships[i])})
                    = Cardinality({j \in DOMAIN kg.relationships :
                                  SameTriple(kg.relationships[j], kg.relationships[i])})

(* Of two relationships with one linked pair and two descriptions only the *)
(* first was evaluable and judged                                          *)
C27_Witness ==
    /\ FactualPrecisionReturned
    /\ Len(kg.relationships) = 2
    /\ PairAt(kg, 1) = PairAt(kg, 2)
    /\ kg.relationships[1].description # kg.relationships[2].description
    /\ PairAt(kg, 1) \in LinkedPairs
    /\ frame.population = <<kg.relationships[1]>>
    /\ Len(referee_calls) = 1
    /\ referee_calls[1].item = kg.relationships[1]

-----------------------------------------------------------------------------
(* C29: with a referee supplied, when kg.relationships or kg.source_texts *)
(* is empty or no relationship maps to a source text, factual_precision   *)
(* is the number 0.0 with total_evaluated 0, not None, and no referee     *)
(* call is made; likewise contextual_relevance is 0.0 with                *)
(* total_evaluated 0 when there are no source texts or no mappable items. *)
C29_NothingToEvaluate ==
    /\ /\ FactualPrecisionReturned
       /\ \/ Len(kg.relationships) = 0
          \/ Len(kg.source_texts) = 0
          \/ LinkedPairs = {}
       => /\ metrics.factual_precision = <<0>>
          /\ metrics.factual_precision_details.total_evaluated = 0
          /\ referee_calls = <<>>
    /\ /\ ContextualRelevanceReturned
       /\ \/ Len(kg.source_texts) = 0
          \/ EntityListings = {} /\ LinkedPairs = {}
       => /\ metrics.contextual_relevance = <<0>>
          /\ metrics.contextual_relevance_details.total_evaluated = 0
          /\ metrics.factual_precision = <<0>>
          /\ referee_calls = <<>>

(* evaluate returned with a referee, relationships, entities and a source *)
(* text that links none of them                                           *)
C29_Witness ==
    /\ ContextualRelevanceReturned
    /\ evaluator.sample_size >= 1
    /\ Len(kg.relationships) >= 1
    /\ Len(kg.entities) >= 1
    /\ Len(kg.source_texts) >= 1
    /\ LinkedPairs = {}
    /\ EntityListings = {}
    /\ metrics.factual_precision = <<0>>
    /\ metrics.contextual_relevance = <<0>>
    /\ referee_calls = <<>>

-----------------------------------------------------------------------------
(* evaluate has been called on a graph with entities and relationships *)
CentralityComputed == result # NotCalled /\ ~IsEmptyInput(kg)

(* C23: the centrality computation calls weighted PageRank first; it calls *)
(* unweighted PageRank, exactly once, if and only if the weighted call     *)
(* failed, and then uses the unweighted scores; a failure of the           *)
(* unweighted call is raised by the evaluation, which returns no metrics   *)
(* and makes no further call; the unweighted call is never made when the   *)
(* weighted one succeeds.                                                  *)
C23_PagerankFallback ==
    CentralityComputed =>
        /\ Len(attempts) >= 1 /\ attempts[1] = "weight"
        /\ Cardinality({a \in DOMAIN attempts : attempts[a] = "weight"}) = 1
        /\ Cardinality({a \in DOMAIN attempts : attempts[a] = "None"})
              = IF pagerank_ok["weight"] THEN 0 ELSE 1
        /\ Len(attempts) <= 2
        /\ result = Raised <=> ~pagerank_ok["weight"] /\ ~pagerank_ok["None"]
        /\ result # Raised =>
              /\ result.kind = "returned"
              /\ result.value.pagerank_entropy.of
                    = pagerank(graph, IF pagerank_ok["weight"] THEN "weight" ELSE "None")

(* The weighted call failed and the metrics come from the unweighted one *)
C23_Witness ==
    /\ CentralityComputed
    /\ attempts = <<"weight", "None">>
    /\ result.kind = "returned"
    /\ result.value.pagerank_entropy.of.weight = "None"
    /\ number_of_edges(graph) >= 1

-----------------------------------------------------------------------------
(* Vocabulary of the bundled referees' properties *)

(* Call c of the log got no reply: an error, a timeout, or a response *)
(* without readable content                                           *)
CallFailed(c) ==
    \/ referee_calls[c].response.kind \in {"error", "timeout"}
    \/ /\ referee_calls[c].response.kind = "response"
       /\ referee_calls[c].response.content = <<>>

(* The text the referee replied with in call c, case and outer blanks aside *)
ReplyOf(c) == lower(strip(referee_calls[c].response.content[1]))

BundledReferee ==
    evaluator.llm_referee \in {<<"OpenAIReferee">>, <<"AnthropicReferee">>}

-----------------------------------------------------------------------------
(* C26: the bundled referees return 'correct' for the reply CORRECT,      *)
(* 'partially_correct' for PARTIALLY_CORRECT and 'incorrect' for          *)
(* INCORRECT, whatever the case of the reply.                             *)
C26_ReplyMapping ==
    FactualPrecisionReturned /\ BundledReferee =>
        \A c \in DOMAIN referee_calls :
            ~CallFailed(c) =>
                /\ ReplyOf(c) = <<"c", "o", "r", "r", "e", "c", "t">>
                      => referee_calls[c].answer = "correct"
                /\ ReplyOf(c) = <<"p", "a", "r", "t", "i", "a", "l", "l", "y", "_",
                                  "c", "o", "r", "r", "e", "c", "t">>
                      => referee_calls[c].answer = "partially_correct"
                /\ ReplyOf(c) = <<"i", "n", "c", "o", "r", "r", "e", "c", "t">>
                      => referee_calls[c].answer = "incorrect"

-----------------------------------------------------------------------------
(* Vocabulary of the KGEvaluator properties *)

EvaluationReturned == evaluation.kind = "returned"

Ran(dimension) == EvaluationReturned /\ dimension \in DOMAIN evaluation.value

SummaryReturned == summary.kind = "returned"

(* The dimension names asked for in the call *)
Requested ==
    IF requested = <<>>
    THEN {"scale_richness", "structural_integrity", "semantic_quality", "efficiency"}
    ELSE {requested[1][i] : i \in DOMAIN requested[1]}

TotalTextLength ==
    SeqSum([s \in DOMAIN kg.source_texts |-> Len(kg.source_texts[s].content)])

-----------------------------------------------------------------------------
(* C24: no dimension evaluator (scale and richness, structural integrity, *)
(* semantic quality without a referee, efficiency) raises on a graph with *)
(* degenerate values: evaluate fails only when both PageRank calls of the *)
(* environment fail; and every ratio whose denominator is zero is         *)
(* reported as 0.0, or as its documented default (singleton_ratio and     *)
(* entity_normalization_score 1.0).                                       *)
C24_DegenerateValues ==
    /\ evaluation = Raised =>
          /\ "structural_integrity" \in Requested
          /\ ~pagerank_ok["weight"] /\ ~pagerank_ok["None"]
          /\ Len(kg.entities) > 0 /\ Len(kg.relationships) > 0
    /\ Ran("scale_richness") =>
          LET sr == evaluation.value.scale_richness
          IN  /\ Len(kg.entities) = 0 => sr.entity_property_fill_rate = 0
              /\ Len(kg.relationships) = 0 =>
                    /\ sr.relationship_property_fill_rate = 0
                    /\ sr.relationship_diversity_score = 0
                    /\ sr.unique_relationship_types = 0
              /\ Len(kg.entities) + Len(kg.relationships) = 0 =>
                    sr.overall_property_fill_rate = 0
    /\ Ran("structural_integrity") =>
          LET si == evaluation.value.structural_integrity
          IN  Len(kg.entities) = 0 \/ Len(kg.relationships) = 0 =>
                /\ si.graph_density = 0
                /\ si.largest_connected_component_ratio = 0
                /\ si.singleton_ratio = 10000
                /\ si.average_degree_centrality = 0
    /\ Ran("semantic_quality") /\ NoReferee =>
          LET sq == evaluation.value.semantic_quality
          IN  /\ Len(kg.entities) <= 1 => sq.entity_normalization_score = 10000
              /\ sq.factual_precision = <<>>
              /\ sq.contextual_relevance = <<>>
    /\ Ran("efficiency") =>
          LET eff == evaluation.value.efficiency
          IN  /\ Len(kg.source_texts) = 0 =>
                    /\ eff.knowledge_density_per_chunk = 0
                    /\ eff.average_entities_per_source = 0
                    /\ eff.average_relationships_per_source = 0
                    /\ eff.average_source_text_length = 0
                    /\ eff.productive_source_ratio = 0
              /\ TotalTextLength = 0 =>
                    /\ eff.entities_per_character = [whole |-> 0, millionths |-> 0]
                    /\ eff.relationships_per_character
                          = [whole |-> 0, millionths |-> 0]

(* All four dimensions returned for a graph without entities, with a      *)
(* relationship of empty description and keywords and a dangling endpoint, *)
(* and a source text of empty content                                      *)
C24_Witness ==
    /\ EvaluationReturned
    /\ DOMAIN evaluation.value
          = {"evaluation_metadata", "scale_richness", "structural_integrity",
             "semantic_quality", "efficiency"}
    /\ NoReferee
    /\ Len(kg.entities) = 0
    /\ \E i \in DOMAIN kg.relationships :
          /\ kg.relationships[i].description = <<>>
          /\ kg.relationships[i].keywords = <<<<>>>>
    /\ Len(kg.source_texts) = 1
    /\ TotalTextLength = 0
    /\ evaluation.value.scale_richness.entity_property_fill_rate = 0
    /\ evaluation.value.scale_richness.relationship_property_fill_rate = 5000

-----------------------------------------------------------------------------
(* C25: the mapping KGEvaluator.evaluate returns always has               *)
(* evaluation_metadata, and has a dimension's key iff the dimension is in *)
(* include_dimensions (all four when it is None); the metadata records    *)
(* the dimensions that ran, whether a referee was supplied, and the       *)
(* configured sample size and similarity threshold.                       *)
C25_ResultKeys ==
    EvaluationReturned =>
        /\ "evaluation_metadata" \in DOMAIN evaluation.value
        /\ DOMAIN evaluation.value = {"evaluation_metadata"} \cup Requested
        /\ LET metadata == evaluation.value.evaluation_metadata
           IN  /\ {metadata.included_dimensions[i] :
                      i \in DOMAIN metadata.included_dimensions}
                     = DOMAIN evaluation.value \ {"evaluation_metadata"}
               /\ metadata.llm_referee_available = (evaluator.llm_referee # <<>>)
               /\ metadata.sample_size = evaluator.sample_size
               /\ metadata.similarity_threshold = evaluator.similarity_threshold

(* Two of the four dimensions were asked for, with a referee *)
C25_Witness ==
    /\ EvaluationReturned
    /\ requested = <<<<"semantic_quality", "structural_integrity">>>>
    /\ DOMAIN evaluation.value
          = {"evaluation_metadata", "semantic_quality", "structural_integrity"}
    /\ evaluation.value.evaluation_metadata.llm_referee_available
    /\ evaluation.value.evaluation_metadata.sample_size = 1
    /\ Len(kg.relationships) >= 1

-----------------------------------------------------------------------------
(* The pairs of positions of kg.entities that hold one name, the name not *)
(* empty once lower-cased and stripped                                    *)
DuplicatePositions ==
    {p \in (DOMAIN kg.entities) \X (DOMAIN kg.entities) :
        /\ p[1] < p[2]
        /\ kg.entities[p[1]].entity_name = kg.entities[p[2]].entity_name
        /\ strip(lower(kg.entities[p[1]].entity_name)) # <<>>}

(* C28: when kg.entities holds a name, not empty after normalization, at  *)
(* two positions, alias detection reports the name paired with itself     *)
(* with similarity 1.0 at every threshold up to 1 and counts the pair,    *)
(* which lowers the score, while the graph builder makes one node of the  *)
(* two; the entity count of the score and of the domain density counts    *)
(* both entries.                                                          *)
C28_DuplicateNames ==
    DuplicatePositions # {} =>
        /\ Ran("semantic_quality") =>
              LET sq == evaluation.value.semantic_quality
              IN  /\ \A p \in DuplicatePositions :
                        \E a \in DOMAIN sq.potential_alias_pairs :
                            sq.potential_alias_pairs[a]
                                = <<kg.entities[p[1]].entity_name,
                                    kg.entities[p[1]].entity_name,
                                    [num |-> 1, den |-> 1]>>
                  /\ sq.alias_pairs_count >= Cardinality(DuplicatePositions)
                  /\ sq.entity_normalization_score < 10000
                  /\ sq.alias_pairs_count < Len(kg.entities) =>
                        IsRatio(sq.entity_normalization_score,
                                Len(kg.entities) - sq.alias_pairs_count,
                                Len(kg.entities))
        /\ Ran("structural_integrity") /\ Len(kg.relationships) > 0 =>
              LET si == evaluation.value.structural_integrity
                  nodes == DOMAIN _build_networkx_graph(kg).node
              IN  /\ nodes = ExpectedNodes(kg)
                  /\ Cardinality(nodes \cap EntityNames(kg)) < Len(kg.entities)
                  /\ IsRatio(si.average_component_size,
                             Cardinality(ExpectedNodes(kg)),
                             si.connected_components_count)
                  /\ IsRatio(si.graph_density,
                             Len(kg.relationships), Len(kg.entities))

(* Two entities named "a" and one relationship: one alias pair, score 0.5, *)
(* two nodes, domain density 0.5                                           *)
C28_Witness ==
    /\ DuplicatePositions = {<<1, 2>>}
    /\ Len(kg.relationships) = 1
    /\ Ran("semantic_quality")
    /\ Ran("structural_integrity")
    /\ evaluator.similarity_threshold = [num |-> 1, den |-> 1]
    /\ evaluation.value.semantic_quality.alias_pairs_count = 1
    /\ evaluation.value.semantic_quality.entity_normalization_score = 5000
    /\ evaluation.value.structural_integrity.graph_density = 5000
    /\ evaluation.value.structural_integrity.average_component_size = 20000

-----------------------------------------------------------------------------
(* C30: relationship_diversity_score is never positive, 0.0 without       *)
(* relationships and negative otherwise, so for every result that has     *)
(* scale_richness the summary's recommendations include 'Work on          *)
(* identifying more diverse relationship types' and are never the sole    *)
(* 'Overall performance looks good across evaluated dimensions'.          *)
C30_DiversityNeverPositive ==
    /\ Ran("scale_richness") =>
          LET score == evaluation.value.scale_richness.relationship_diversity_score
          IN  /\ score <= 0
              /\ score = 0 <=> Len(kg.relationships) = 0
    /\ SummaryReturned /\ Ran("scale_richness") =>
          /\ \E i \in DOMAIN summary.value.recommendations :
                summary.value.recommendations[i]
                    = "Work on identifying more diverse relationship types"
          /\ \A i \in DOMAIN summary.value.recommendations :
                summary.value.recommendations[i]
                    # "Overall performance looks good across evaluated dimensions"

(* Only scale and richness was evaluated, the fill rate is above one half, *)
(* and the one recommendation is the diversity one                         *)
C30_Witness ==
    /\ SummaryReturned
    /\ requested = <<<<"scale_richness">>>>
    /\ Len(kg.relationships) >= 1
    /\ evaluation.value.scale_richness.overall_property_fill_rate >= 5000
    /\ evaluation.value.scale_richness.relationship_diversity_score < 0
    /\ summary.value.recommendations
          = <<"Work on identifying more diverse relationship types">>
=============================================================================
